---- MODULE Spec2Model ----
(***************************************************************************)
(* Model of sage.manifolds.differentiable.char_class (CharClass and        *)
(* _get_predefined_class) and of the data of sage.coding.two_weight_db.    *)
(*                                                                         *)
(* Specifications:                                                         *)
(*   Spec            the class object: construction, get_form and its      *)
(*                   per-connection cache, the accessors                   *)
(*   SpecFrames      _get_min_frames, one outer iteration at a time        *)
(*   SpecLoop        the loop body of get_form for one frame: normalize,   *)
(*                   insert in the polynomial, reduce                      *)
(*   SpecPredefined  calls of _get_predefined_class                        *)
(*   SpecDatabase    the two-weight codes, one codeword at a time          *)
(*   SpecCallers     two callers of get_form on one object                 *)
(*   SpecConstruct   construction alone, over defining functions with      *)
(*                   Taylor coefficients up to the manifold dimension      *)
(*                                                                         *)
(* In Spec the symbolic and tensor engine (curvature forms, matrices of    *)
(* mixed forms, set_restriction) is an external collaborator whose calls   *)
(* either succeed or raise; SpecLoop computes with the matrices in the     *)
(* algebra of mixed forms generated by one 2-form.                         *)
(***************************************************************************)
EXTENDS Integers, Sequences, FiniteSets, TLC

VARIABLES
    constructed,      \* TRUE once __init__ has run to its end
    init_call,        \* arguments and outcome of the last __init__ call
    _field_type,      \* self._vbundle._field_type
    _class_type,      \* self._class_type
    _rank,            \* self._rank
    _dim,             \* self._base_space._dim
    _func,            \* self._func, as its Taylor coefficients at 0
    _coeff_list,      \* self._coeff_list
    _mixed_forms,     \* self._mixed_forms: connection -> mixed form
    next_id,          \* identity given to the next mixed form created
    last,             \* the last get_form / _init_derived / _del_derived call
    frame_list,       \* _get_min_frames: its argument
    fidx,             \* _get_min_frames: frames of frame_list already iterated
    min_frame_set,    \* _get_min_frames: min_frame_set
    redund_frame_set, \* _get_min_frames: redund_frame_set of the last iteration
    broke,            \* _get_min_frames: the last inner loop ended by break
    fpc,              \* _get_min_frames: "idle", "loop" or "done"
    cmatrix,          \* get_form, one frame: the curvature matrix of the frame
    ncmatrix,         \* get_form, one frame: ncmatrix
    power_list,       \* _insert_in_polynomial: power_list
    mults,            \* _insert_in_polynomial: matrix products computed
    rmatrix,          \* get_form, one frame: rmatrix
    rst,              \* get_form, one frame: rst
    ppc,              \* get_form, one frame: position in the loop body
    lookups,          \* _get_predefined_class: the calls made, with outcomes
    code,             \* two-weight database: index in data of the entry looked at
    msg,              \* two-weight database: message of the last codeword
    seen,             \* two-weight database: non-zero weights met so far
    dpc,              \* two-weight database: "idle", "words" or "done"
    tpc,              \* callers of get_form: position of each caller
    tcall,            \* callers of get_form: arguments of each caller
    tres,             \* callers of get_form: the local res of each caller
    tret,             \* callers of get_form: identity of the form returned
    computed,         \* callers of get_form: forms computed per connection
    written,          \* callers of get_form: cache writes per connection
    overlapped        \* callers of get_form: two calls were under way at once

vars == <<constructed, init_call, _field_type, _class_type, _rank, _dim, _func,
          _coeff_list, _mixed_forms, next_id, last,
          frame_list, fidx, min_frame_set, redund_frame_set, broke, fpc,
          cmatrix, ncmatrix, power_list, mults, rmatrix, rst, ppc,
          lookups, code, msg, seen, dpc,
          tpc, tcall, tres, tret, computed, written, overlapped>>

classVars == <<constructed, init_call, _field_type, _class_type, _rank, _dim,
               _func, _coeff_list, _mixed_forms, next_id, last>>

frameVars == <<frame_list, fidx, min_frame_set, redund_frame_set, broke, fpc>>

loopVars == <<cmatrix, ncmatrix, power_list, mults, rmatrix, rst, ppc>>

predefVars == <<lookups>>

dbVars == <<code, msg, seen, dpc>>

callerVars == <<tpc, tcall, tres, tret, computed, written, overlapped>>

---------------------------------------------------------------------------
\* Bounds of the model

NumPoints == 3      \* points of the base manifold; a domain is a set of points
MaxFrames == 3      \* longest frame_list given to _get_min_frames
MaxRank == 2        \* largest bundle rank
MaxDim == 4         \* largest manifold dimension
MaxForms == 3       \* mixed forms created in one behaviour
MaxLookups == 3     \* calls of _get_predefined_class in one behaviour

---------------------------------------------------------------------------
\* Frames and domains

Points == 1..NumPoints

Domains == (SUBSET Points) \ {{}}

\* frame._domain.is_subset(oframe._domain)
is_subset(d1, d2) == d1 \subseteq d2

\* A frame is an object (id) with a domain.
Frame(i, d) == [id |-> i, dom |-> d]

\* A frame list given to _get_min_frames: distinct frames (the frame at
\* position i has identity i) with the domains ds, equal domains included.
FrameList(ds) == [i \in DOMAIN ds |-> Frame(i, ds[i])]

\* InnerLoop without the elif branch: no selected frame is ever redundant.
InnerLoop_NoRedund(min_set, frame) ==
    LET covering == {o \in min_set : is_subset(frame.dom, o.dom)}
    IN  {[broke |-> covering # {}, redund |-> {}]}

\* InnerLoop with the two subset tests exchanged.
InnerLoop_Swapped(min_set, frame) ==
    LET covering == {o \in min_set : is_subset(o.dom, frame.dom)}
        covered == {o \in min_set : /\ ~is_subset(o.dom, frame.dom)
                                    /\ is_subset(frame.dom, o.dom)}
    IN  IF covering = {}
        THEN {[broke |-> FALSE, redund |-> covered]}
        ELSE {[broke |-> TRUE, redund |-> S] : S \in SUBSET covered}

\* Lines 871-875: the inner loop over min_frame_set for one candidate.  The
\* iteration order of a Python set is arbitrary: when some selected frame
\* covers the candidate the loop breaks at the first such frame met, and the
\* frames met before it that the candidate covers are already in redund.
InnerLoop(min_set, frame) ==
    LET covering == {o \in min_set : is_subset(frame.dom, o.dom)}
        covered == {o \in min_set : /\ ~is_subset(frame.dom, o.dom)
                                    /\ is_subset(o.dom, frame.dom)}
    IN  IF covering = {}
        THEN {[broke |-> FALSE, redund |-> covered]}
        ELSE {[broke |-> TRUE, redund |-> S] : S \in SUBSET covered}

\* OuterIter without line 878: the redundant frames stay selected.
OuterIter_KeepRedund(min_set, frame) ==
    {[min |-> IF r.broke THEN min_set ELSE min_set \cup {frame},
      redund |-> r.redund,
      broke |-> r.broke] : r \in InnerLoop(min_set, frame)}

\* Lines 869-878: one iteration of the outer loop, every possible outcome.
OuterIter(min_set, frame) ==
    {[min |-> (IF r.broke THEN min_set ELSE min_set \cup {frame}) \ r.redund,
      redund |-> r.redund,
      broke |-> r.broke] : r \in InnerLoop(min_set, frame)}

RECURSIVE MinFramesFrom(_, _)
\* The outer loop run from min_set over the frames of list.
MinFramesFrom(min_set, list) ==
    IF list = <<>>
    THEN {min_set}
    ELSE UNION {MinFramesFrom(o.min, Tail(list)) : o \in OuterIter(min_set, Head(list))}

\* _get_min_frames(frame_list): the sets it can return.
_get_min_frames(list) == MinFramesFrom({}, list)

---------------------------------------------------------------------------
\* The class object

FieldTypes == {"real", "complex", "neither_real_nor_complex"}

ClassTypeArgs == {"additive", "multiplicative", "Pfaffian", "other"}

\* Defining functions, as Taylor coefficients <<a0, a1, a2>> at 0.
Funcs == {<<1, 1, 0>>, <<1, 0, 1>>}

Connections == {"nab1", "nab2"}

NotConnections == {"one_form"}

eU == Frame(1, {1})
fV == Frame(2, {2})
gM == Frame(3, {1, 2})

\* con._coefficients.keys()
ConFrames(con) == IF con = "nab1" THEN <<eU, fV, gM>> ELSE <<eU, fV>>

\* The cmatrices argument: None, or a dictionary frame -> matrix.
NoMatrices == [given |-> FALSE, keys |-> {}]

CMatricesArgs == {NoMatrices} \cup {[given |-> TRUE, keys |-> K] : K \in {{}, {eU, gM}}}

EmptyDict == [c \in {} |-> {}]

NoCall == [op |-> "none", con |-> "none", given |-> FALSE, err |-> "none",
           hit |-> FALSE, ret |-> 0, processed |-> {}, curv |-> {},
           val |-> <<>>]

NoInit == [field |-> "none", class_type |-> "none", rank |-> 0, func |-> <<>>,
           err |-> "none"]

---------------------------------------------------------------------------
\* Construction

\* ArgsAccepted with "and" for "or" in the Pfaffian check.
ArgsAccepted_PfaffianAnd(field, class_type, rank) ==
    /\ field # "neither_real_nor_complex"
    /\ class_type \in {"additive", "multiplicative", "Pfaffian"}
    /\ (class_type = "Pfaffian") => ~(field # "real" /\ rank % 2 # 0)

\* Lines 451-459: the argument checks of __init__; TRUE when none raises.
ArgsAccepted(field, class_type, rank) ==
    /\ field # "neither_real_nor_complex"
    /\ class_type \in {"additive", "multiplicative", "Pfaffian"}
    /\ (class_type = "Pfaffian") => ~(field # "real" \/ rank % 2 # 0)

RECURSIVE Gcd(_, _)
Gcd(a, b) == IF b = 0 THEN a ELSE Gcd(b, a % b)

Abs(n) == IF n < 0 THEN -n ELSE n

\* An exact rational coefficient of the symbolic ring, in lowest terms.
Rat(n, d) ==
    IF n = 0 THEN [num |-> 0, den |-> 1]
    ELSE [num |-> n \div Gcd(Abs(n), d), den |-> d \div Gcd(Abs(n), d)]

\* Taylor coefficient of index k of the defining function.
TaylorOf(func, k) == IF k + 1 <= Len(func) THEN func[k + 1] ELSE 0

ExpandedCoeff_EvenPart(func, field, class_type, j) ==
    IF field = "real"
    THEN CASE class_type = "additive" ->
                IF j % 2 = 0 THEN Rat(TaylorOf(func, j \div 2), 2) ELSE Rat(0, 1)
           [] class_type = "multiplicative" ->
                IF j = 0 THEN Rat(1, 1)
                ELSE IF j = 2 THEN Rat(TaylorOf(func, 1), 2)
                ELSE IF j = 4
                     THEN Rat(4 * TaylorOf(func, 2) - TaylorOf(func, 1) * TaylorOf(func, 1), 8)
                     ELSE Rat(0, 1)
           [] OTHER ->
                IF j % 2 = 0 THEN Rat(TaylorOf(func, j), 1) ELSE Rat(0, 1)
    ELSE Rat(TaylorOf(func, j), 1)

\* Lines 492-507: coefficient of index j of the function that is expanded;
\* the square root is expanded for f(0) = 1 up to index 5.
ExpandedCoeff(func, field, class_type, j) ==
    IF field = "real"
    THEN CASE class_type = "additive" ->
                IF j % 2 = 0 THEN Rat(TaylorOf(func, j \div 2), 2) ELSE Rat(0, 1)
           [] class_type = "multiplicative" ->
                IF j = 0 THEN Rat(1, 1)
                ELSE IF j = 2 THEN Rat(TaylorOf(func, 1), 2)
                ELSE IF j = 4
                     THEN Rat(4 * TaylorOf(func, 2) - TaylorOf(func, 1) * TaylorOf(func, 1), 8)
                     ELSE Rat(0, 1)
           [] OTHER ->
                IF j % 2 = 1 THEN Rat(TaylorOf(func, j), 1) ELSE Rat(0, 1)
    ELSE Rat(TaylorOf(func, j), 1)

pow_range_FullDimension(dim) == dim

\* Line 487
pow_range(dim) == dim \div 2

\* _get_coeff_list with the Taylor expansion taken one order further.
_get_coeff_list_OneMore(func, field, class_type, dim) ==
    LET nz == {j \in 0..(pow_range(dim) + 1) :
                  ExpandedCoeff(func, field, class_type, j).num # 0}
        top == IF nz = {} THEN 0 - 1 ELSE CHOOSE j \in nz : \A i \in nz : i <= j
    IN  [i \in 1..(top + 1) |-> ExpandedCoeff(func, field, class_type, i - 1)]

\* Lines 487-510: taylor(new_var, 0, pow_range).coefficients(sparse=False),
\* the dense list up to the highest non-zero coefficient.
_get_coeff_list(func, field, class_type, dim) ==
    LET nz == {j \in 0..pow_range(dim) :
                  ExpandedCoeff(func, field, class_type, j).num # 0}
        top == IF nz = {} THEN 0 - 1 ELSE CHOOSE j \in nz : \A i \in nz : i <= j
    IN  [i \in 1..(top + 1) |-> ExpandedCoeff(func, field, class_type, i - 1)]

\* Lines 434-471: CharClass.__init__
Construct(field, class_type, rank, dim, func) ==
    /\ ~constructed
    /\ IF ArgsAccepted(field, class_type, rank)
       THEN /\ constructed' = TRUE
            /\ _field_type' = field
            /\ _class_type' = class_type
            /\ _rank' = rank
            /\ _dim' = dim
            /\ _func' = func
            /\ _coeff_list' = _get_coeff_list(func, field, class_type, dim)
            /\ _mixed_forms' = EmptyDict
            /\ init_call' = [field |-> field, class_type |-> class_type,
                             rank |-> rank, func |-> func, err |-> "none"]
       ELSE /\ init_call' = [field |-> field, class_type |-> class_type,
                             rank |-> rank, func |-> func, err |-> "ValueError"]
            /\ UNCHANGED <<constructed, _field_type, _class_type, _rank, _dim,
                           _func, _coeff_list, _mixed_forms>>
    /\ UNCHANGED <<next_id, last>>
    /\ UNCHANGED frameVars
    /\ UNCHANGED loopVars
    /\ UNCHANGED <<predefVars, dbVars, callerVars>>

\* InitDerived that keeps the dictionary it finds.
InitDerived_KeepsCache ==
    /\ constructed
    /\ last' = [NoCall EXCEPT !.op = "_init_derived"]
    /\ UNCHANGED <<constructed, init_call, _field_type, _class_type, _rank,
                   _dim, _func, _coeff_list, _mixed_forms, next_id>>
    /\ UNCHANGED frameVars
    /\ UNCHANGED loopVars
    /\ UNCHANGED <<predefVars, dbVars, callerVars>>

\* Lines 512-526: _init_derived binds a new empty dictionary.
InitDerived ==
    /\ constructed
    /\ _mixed_forms' = EmptyDict
    /\ last' = [NoCall EXCEPT !.op = "_init_derived"]
    /\ UNCHANGED <<constructed, init_call, _field_type, _class_type, _rank,
                   _dim, _func, _coeff_list, next_id>>
    /\ UNCHANGED frameVars
    /\ UNCHANGED loopVars
    /\ UNCHANGED <<predefVars, dbVars, callerVars>>

\* DelDerived that also drops the coefficient list.
DelDerived_DropsCoefficients ==
    /\ constructed
    /\ _mixed_forms' = EmptyDict
    /\ _coeff_list' = <<>>
    /\ last' = [NoCall EXCEPT !.op = "_del_derived"]
    /\ UNCHANGED <<constructed, init_call, _field_type, _class_type, _rank,
                   _dim, _func, next_id>>
    /\ UNCHANGED frameVars
    /\ UNCHANGED loopVars
    /\ UNCHANGED <<predefVars, dbVars, callerVars>>

\* Lines 528-540: _del_derived clears the dictionary.
DelDerived ==
    /\ constructed
    /\ _mixed_forms' = EmptyDict
    /\ last' = [NoCall EXCEPT !.op = "_del_derived"]
    /\ UNCHANGED <<constructed, init_call, _field_type, _class_type, _rank,
                   _dim, _func, _coeff_list, next_id>>
    /\ UNCHANGED frameVars
    /\ UNCHANGED loopVars
    /\ UNCHANGED <<predefVars, dbVars, callerVars>>

\* Lines 588-602: class_type() returns self._class_type (the action is
\* named ClassType because class_type names the constructor argument).
ClassType ==
    /\ constructed
    /\ last' = [NoCall EXCEPT !.op = "class_type", !.val = _class_type]
    /\ UNCHANGED <<constructed, init_call, _field_type, _class_type, _rank,
                   _dim, _func, _coeff_list, _mixed_forms, next_id>>
    /\ UNCHANGED frameVars
    /\ UNCHANGED loopVars
    /\ UNCHANGED <<predefVars, dbVars, callerVars>>

\* Lines 604-623: function() returns self._func
function ==
    /\ constructed
    /\ last' = [NoCall EXCEPT !.op = "function", !.val = _func]
    /\ UNCHANGED <<constructed, init_call, _field_type, _class_type, _rank,
                   _dim, _func, _coeff_list, _mixed_forms, next_id>>
    /\ UNCHANGED frameVars
    /\ UNCHANGED loopVars
    /\ UNCHANGED <<predefVars, dbVars, callerVars>>

---------------------------------------------------------------------------
\* get_form

\* Line 703: isinstance(con, (AffineConnection, BundleConnection))
IsConnection(con) == con \in Connections

\* InCache of a get_form that never looks the connection up.
InCache_Never(con, cache) == FALSE

\* Line 707: con in self._mixed_forms
InCache(con, cache) == con \in DOMAIN cache

\* Entry with the Pfaffian check before the type check.
Entry_PfaffianFirst(con, cmatrices, cache, class_type) ==
    IF ~cmatrices.given /\ class_type = "Pfaffian" /\ ~InCache(con, cache)
    THEN "NotImplementedError"
    ELSE IF ~IsConnection(con) THEN "TypeError"
    ELSE IF InCache(con, cache) THEN "hit"
    ELSE "compute"

\* Entry with the Pfaffian check before the look-up in the cache.
Entry_PfaffianBeforeLookup(con, cmatrices, cache, class_type) ==
    IF ~IsConnection(con) THEN "TypeError"
    ELSE IF ~cmatrices.given /\ class_type = "Pfaffian" THEN "NotImplementedError"
    ELSE IF InCache(con, cache) THEN "hit"
    ELSE "compute"

\* Entry without the look-up in the cache.
Entry_NoLookup(con, cmatrices, cache, class_type) ==
    IF ~IsConnection(con) THEN "TypeError"
    ELSE IF ~cmatrices.given /\ class_type = "Pfaffian" THEN "NotImplementedError"
    ELSE "compute"

\* Entry without the Pfaffian check.
Entry_NoPfaffianCheck(con, cmatrices, cache, class_type) ==
    IF ~IsConnection(con) THEN "TypeError"
    ELSE IF InCache(con, cache) THEN "hit"
    ELSE "compute"

\* Lines 703-714: the checks of get_form that precede any computation.
Entry(con, cmatrices, cache, class_type) ==
    IF ~IsConnection(con) THEN "TypeError"
    ELSE IF InCache(con, cache) THEN "hit"
    ELSE IF ~cmatrices.given /\ class_type = "Pfaffian" THEN "NotImplementedError"
    ELSE "compute"

\* deg_dist with the strides of the real and the complex case exchanged.
deg_dist_FieldsSwapped(class_type, field, rank) ==
    IF class_type = "Pfaffian" THEN rank
    ELSE IF field = "real" THEN 2
    ELSE IF field = "complex" THEN 4
    ELSE 1

\* Lines 733-741
deg_dist(class_type, field, rank) ==
    IF class_type = "Pfaffian" THEN rank
    ELSE IF field = "real" THEN 4
    ELSE IF field = "complex" THEN 2
    ELSE 1

\* MarkedZero without the Pfaffian clause.
MarkedZero_StrideOnly(k, class_type, dist) == k % dist # 0

\* Lines 744-747: the test that marks the component of degree k as zero.
MarkedZero(k, class_type, dist) ==
    k % dist # 0 \/ (class_type = "Pfaffian" /\ k = 0)

\* Lines 743-765: res[k]._is_zero for every k of res.irange().
ZeroMarks(class_type, field, rank, dim) ==
    [k \in 0..dim |-> MarkedZero(k, class_type, deg_dist(class_type, field, rank))]

\* FramesToProcess with the frame selector applied whatever cmatrices is.
FramesToProcess_SelectorAlways(con, cmatrices) ==
    _get_min_frames(ConFrames(con))

\* Lines 716-720 and 768: the frames whose matrices are processed, every
\* possible choice: the keys of cmatrices, or the selected frames of con.
FramesToProcess(con, cmatrices) ==
    IF cmatrices.given THEN {cmatrices.keys} ELSE _get_min_frames(ConFrames(con))

\* Lines 715-785: the exception, if any, that ends the computation.  fail
\* names the collaborator call that raises, if one does.
ComputeError(cmatrices, frames, fail, class_type, field, rank) ==
    IF fail = "curvature_form" /\ ~cmatrices.given /\ frames # {} /\ rank > 0
    THEN "CurvatureError"
    ELSE IF deg_dist(class_type, field, rank) = 0 THEN "ZeroDivisionError"
    ELSE IF fail = "pipeline" /\ frames # {} THEN "PipelineError"
    ELSE "none"

\* CacheStore of a get_form that stores res before the loop over the frames.
CacheStore_BeforeLoop(cache, con, res, err) ==
    [c \in DOMAIN cache \cup {con} |-> IF c = con THEN res ELSE cache[c]]

\* CacheStore of a get_form that binds a new dictionary holding res alone.
CacheStore_NewDict(cache, con, res, err) ==
    IF err = "none" THEN [c \in {con} |-> res] ELSE cache

\* Line 787 and where it stands: the cache after the computation ended in err.
CacheStore(cache, con, res, err) ==
    IF err = "none"
    THEN [c \in DOMAIN cache \cup {con} |-> IF c = con THEN res ELSE cache[c]]
    ELSE cache

\* Lines 625-789: CharClass.get_form(con, cmatrices).  When a collaborator
\* raises inside a loop over frames, done is the set of frames the loop has
\* finished before.
get_form(con, cmatrices, fail) ==
    /\ constructed
    /\ LET entry == Entry(con, cmatrices, _mixed_forms, _class_type)
           call == [NoCall EXCEPT !.op = "get_form", !.con = con,
                                  !.given = cmatrices.given]
       IN  CASE entry = "TypeError" ->
                  /\ last' = [call EXCEPT !.err = "TypeError"]
                  /\ UNCHANGED <<_mixed_forms, next_id>>
             [] entry = "NotImplementedError" ->
                  /\ last' = [call EXCEPT !.err = "NotImplementedError"]
                  /\ UNCHANGED <<_mixed_forms, next_id>>
             [] entry = "hit" ->
                  /\ last' = [call EXCEPT !.hit = TRUE, !.ret = _mixed_forms[con].id]
                  /\ UNCHANGED <<_mixed_forms, next_id>>
             [] OTHER ->
                  \E frames \in FramesToProcess(con, cmatrices) :
                     LET err == ComputeError(cmatrices, frames, fail,
                                             _class_type, _field_type, _rank)
                         queried == IF cmatrices.given \/ _rank = 0 THEN {} ELSE frames
                         res == [id |-> next_id,
                                 is_zero |-> ZeroMarks(_class_type, _field_type, _rank, _dim),
                                 frames |-> frames]
                         unmarked == [id |-> next_id, is_zero |-> <<>>, frames |-> {}]
                     IN  /\ next_id <= MaxForms
                         /\ CASE err = "CurvatureError" ->
                                   \E done \in (SUBSET frames) \ {frames} :
                                      /\ last' = [call EXCEPT !.err = err, !.curv = done]
                                      /\ UNCHANGED <<_mixed_forms, next_id>>
                              [] err = "ZeroDivisionError" ->
                                   /\ last' = [call EXCEPT !.err = err, !.curv = queried]
                                   /\ _mixed_forms' = CacheStore(_mixed_forms, con, unmarked, err)
                                   /\ next_id' = next_id + 1
                              [] err = "PipelineError" ->
                                   \E done \in (SUBSET frames) \ {frames} :
                                      /\ last' = [call EXCEPT !.err = err, !.curv = queried,
                                                              !.processed = done]
                                      /\ _mixed_forms' = CacheStore(_mixed_forms, con, res, err)
                                      /\ next_id' = next_id + 1
                              [] OTHER ->
                                   /\ last' = [call EXCEPT !.curv = queried,
                                                           !.processed = frames,
                                                           !.ret = res.id]
                                   /\ _mixed_forms' = CacheStore(_mixed_forms, con, res, err)
                                   /\ next_id' = next_id + 1
    /\ UNCHANGED <<constructed, init_call, _field_type, _class_type, _rank,
                   _dim, _func, _coeff_list>>
    /\ UNCHANGED frameVars
    /\ UNCHANGED loopVars
    /\ UNCHANGED <<predefVars, dbVars, callerVars>>

---------------------------------------------------------------------------
\* _get_min_frames, one outer iteration at a time

\* Lines 869-878: one iteration of the outer loop.
MinFramesIter ==
    /\ fpc = "loop"
    /\ fidx < Len(frame_list)
    /\ \E o \in OuterIter(min_frame_set, frame_list[fidx + 1]) :
          /\ min_frame_set' = o.min
          /\ redund_frame_set' = o.redund
          /\ broke' = o.broke
    /\ fidx' = fidx + 1
    /\ UNCHANGED <<frame_list, fpc>>
    /\ UNCHANGED classVars
    /\ UNCHANGED loopVars
    /\ UNCHANGED <<predefVars, dbVars, callerVars>>

\* Line 879: return min_frame_set
MinFramesReturn ==
    /\ fpc = "loop"
    /\ fidx = Len(frame_list)
    /\ fpc' = "done"
    /\ UNCHANGED <<frame_list, fidx, min_frame_set, redund_frame_set, broke>>
    /\ UNCHANGED classVars
    /\ UNCHANGED loopVars
    /\ UNCHANGED <<predefVars, dbVars, callerVars>>

---------------------------------------------------------------------------
\* Specifications

NoObject ==
    /\ constructed = FALSE
    /\ init_call = NoInit
    /\ _field_type = "none"
    /\ _class_type = "none"
    /\ _rank = 0
    /\ _dim = 0
    /\ _func = <<>>
    /\ _coeff_list = <<>>
    /\ _mixed_forms = EmptyDict
    /\ next_id = 1
    /\ last = NoCall

Callers == {1, 2}

NoLookup == lookups = <<>>

NoDatabase ==
    /\ code = 0
    /\ msg = <<>>
    /\ seen = {}
    /\ dpc = "idle"

NoForm == [id |-> 0, is_zero |-> <<>>, frames |-> {}]

NoCallers ==
    /\ tpc = [t \in Callers |-> "idle"]
    /\ tcall = [t \in Callers |-> [con |-> "none", cmatrices |-> NoMatrices]]
    /\ tres = [t \in Callers |-> NoForm]
    /\ tret = [t \in Callers |-> [id |-> 0, err |-> "none"]]
    /\ computed = [c \in Connections |-> 0]
    /\ written = [c \in Connections |-> 0]
    /\ overlapped = FALSE

NoFrameLoop ==
    /\ cmatrix = <<>>
    /\ ncmatrix = <<>>
    /\ power_list = <<>>
    /\ mults = 0
    /\ rmatrix = <<>>
    /\ rst = <<>>
    /\ ppc = "idle"

\* The class object: no object yet, no _get_min_frames call under way.
Init ==
    /\ NoObject
    /\ NoFrameLoop
    /\ NoLookup
    /\ NoDatabase
    /\ NoCallers
    /\ frame_list = <<>>
    /\ fidx = 0
    /\ min_frame_set = {}
    /\ redund_frame_set = {}
    /\ broke = FALSE
    /\ fpc = "idle"

Next ==
    \/ \E field \in FieldTypes, class_type \in ClassTypeArgs, rank \in 0..MaxRank,
          dim \in 1..MaxDim, func \in Funcs :
          Construct(field, class_type, rank, dim, func)
    \/ \E con \in Connections \cup NotConnections, cmatrices \in CMatricesArgs,
          fail \in {"none", "curvature_form", "pipeline"} :
          get_form(con, cmatrices, fail)
    \/ InitDerived
    \/ DelDerived
    \/ ClassType
    \/ function

Spec == Init /\ [][Next]_vars

\* _get_min_frames called on any frame list (line 868: min_frame_set = set()).
InitFrames ==
    /\ NoObject
    /\ NoFrameLoop
    /\ NoLookup
    /\ NoDatabase
    /\ NoCallers
    /\ \E n \in 0..MaxFrames : \E ds \in [1..n -> Domains] : frame_list = FrameList(ds)
    /\ fidx = 0
    /\ min_frame_set = {}
    /\ redund_frame_set = {}
    /\ broke = FALSE
    /\ fpc = "loop"

NextFrames ==
    \/ MinFramesIter
    \/ MinFramesReturn

SpecFrames == InitFrames /\ [][NextFrames]_vars

---------------------------------------------------------------------------
\* Properties of get_form and of construction (specification Spec)

\* C1: get_form is idempotent per connection: a call for a connection that is
\* in the cache returns the very object the cache holds (same identity),
\* creates no form, runs no pipeline and no curvature query, and leaves the
\* cache as it is.
C1_CachedFormReturned ==
    [][\A c \in Connections :
          (c \in DOMAIN _mixed_forms /\ last'.op = "get_form" /\ last'.con = c)
          => /\ last'.err = "none"
             /\ last'.ret = _mixed_forms[c].id
             /\ _mixed_forms' = _mixed_forms
             /\ next_id' = next_id
             /\ last'.processed = {}
             /\ last'.curv = {}]_vars

C1_Witness ==
    /\ last.op = "get_form"
    /\ last.hit
    /\ last.con \in DOMAIN _mixed_forms
    /\ last.ret = _mixed_forms[last.con].id
    /\ next_id > 1

\* C2: construction succeeds exactly when the field is real or complex, the
\* class type is additive, multiplicative or Pfaffian, and a Pfaffian class
\* has a real field and an even rank; otherwise it raises ValueError and no
\* object, coefficient list or cache exists.
C2_ConstructionValidated ==
    init_call # NoInit =>
        /\ (init_call.err = "none") <=>
              /\ init_call.field \in {"real", "complex"}
              /\ init_call.class_type \in {"additive", "multiplicative", "Pfaffian"}
              /\ (init_call.class_type = "Pfaffian") =>
                    (init_call.field = "real" /\ init_call.rank % 2 = 0)
        /\ (init_call.err = "none") => constructed
        /\ (init_call.err # "none") =>
              /\ init_call.err = "ValueError"
              /\ ~constructed
              /\ _coeff_list = <<>>
              /\ _mixed_forms = EmptyDict

C2_Witness ==
    /\ init_call.err = "ValueError"
    /\ init_call.class_type = "Pfaffian"
    /\ init_call.field = "real"
    /\ init_call.rank % 2 = 1
    /\ ~constructed

\* C3: get_form with an argument that is no connection raises TypeError,
\* whatever the class type, the cache and cmatrices; for a Pfaffian class
\* without matrices too.
C3_TypeErrorFirst ==
    (last.op = "get_form" /\ last.con \notin Connections) =>
        /\ last.err = "TypeError"
        /\ last.ret = 0
        /\ last.processed = {}
        /\ last.curv = {}

C3_Witness ==
    /\ last.op = "get_form"
    /\ last.con \in NotConnections
    /\ _class_type = "Pfaffian"
    /\ ~last.given
    /\ last.err = "TypeError"

\* C4: for a Pfaffian class, get_form for a connection that is not cached and
\* without matrices raises NotImplementedError and queries no curvature form.
C4_PfaffianNeedsMatrices ==
    [][\A c \in Connections :
          (/\ _class_type = "Pfaffian"
           /\ c \notin DOMAIN _mixed_forms
           /\ last'.op = "get_form" /\ last'.con = c /\ ~last'.given)
          => /\ last'.err = "NotImplementedError"
             /\ last'.curv = {}
             /\ last'.processed = {}
             /\ last'.ret = 0]_vars

C4_Witness ==
    /\ last.op = "get_form"
    /\ last.err = "NotImplementedError"
    /\ last.con \in Connections
    /\ last.con \notin DOMAIN _mixed_forms
    /\ _class_type = "Pfaffian"
    /\ ~last.given

\* C5: a get_form call that raises (TypeError, NotImplementedError, or a
\* collaborator raising at any frame of a loop) leaves the cache as it was,
\* with no entry for the connection of the call.
C5_NoEntryOnError ==
    [][(last'.op = "get_form" /\ last'.err # "none")
          => /\ _mixed_forms' = _mixed_forms
             /\ last'.con \notin DOMAIN _mixed_forms'
             /\ last'.ret = 0]_vars

C5_Witness ==
    /\ last.op = "get_form"
    /\ last.err = "PipelineError"
    /\ last.processed # {}
    /\ last.con \notin DOMAIN _mixed_forms
    /\ DOMAIN _mixed_forms # {}

\* C6: the cache changes only in get_form, _init_derived and _del_derived;
\* a step that is not one of the two resets keeps every entry of the cache
\* as it is, and a get_form that changes the cache adds the entry of its
\* connection alone.
C6_CacheOnlyGrows ==
    [][/\ (_mixed_forms' # _mixed_forms) =>
             last'.op \in {"get_form", "_init_derived", "_del_derived"}
       /\ (last'.op \notin {"_init_derived", "_del_derived"}) =>
             /\ \A c \in DOMAIN _mixed_forms :
                   c \in DOMAIN _mixed_forms' /\ _mixed_forms'[c] = _mixed_forms[c]
             /\ DOMAIN _mixed_forms' \subseteq DOMAIN _mixed_forms \cup {last'.con}]_vars

C6_Witness ==
    /\ last.op = "get_form"
    /\ ~last.hit
    /\ last.err = "none"
    /\ Cardinality(DOMAIN _mixed_forms) = 2
    /\ \E c \in DOMAIN _mixed_forms : _mixed_forms[c].id < last.ret

\* The stride of the degree bookkeeping as the specification states it.
Stride == IF _class_type = "Pfaffian" THEN _rank ELSE IF _field_type = "complex" THEN 2 ELSE 4

\* C7: in every form get_form has returned, a component whose degree is not
\* a multiple of the stride (2 complex, 4 real and not Pfaffian, the rank for
\* Pfaffian) is marked zero.
C7_OffStrideMarkedZero ==
    \A c \in DOMAIN _mixed_forms :
        /\ DOMAIN _mixed_forms[c].is_zero = 0.._dim
        /\ \A k \in 0.._dim :
              (~_mixed_forms[c].is_zero[k]) => (k % Stride = 0)

C7_Witness ==
    \E c \in DOMAIN _mixed_forms :
        /\ last.op = "get_form" /\ last.con = c /\ last.ret = _mixed_forms[c].id
        /\ _field_type = "real"
        /\ _class_type # "Pfaffian"
        /\ _dim >= 2
        /\ _mixed_forms[c].is_zero[2]
        /\ \E k \in 1.._dim : ~_mixed_forms[c].is_zero[k]

\* C8: the degree-0 component of every form of a Pfaffian class is marked
\* zero.
C8_PfaffianDegreeZero ==
    (_class_type = "Pfaffian") =>
        \A c \in DOMAIN _mixed_forms : _mixed_forms[c].is_zero[0]

C8_Witness ==
    /\ _class_type = "Pfaffian"
    /\ _rank <= _dim
    /\ \E c \in DOMAIN _mixed_forms :
          /\ _mixed_forms[c].is_zero[0]
          /\ ~_mixed_forms[c].is_zero[_rank]
          /\ last.ret = _mixed_forms[c].id

---------------------------------------------------------------------------
\* Properties of _get_min_frames (specification SpecFrames)

InputFrames == {frame_list[i] : i \in 1..Len(frame_list)}

StrictlyInside(d1, d2) == d1 \subseteq d2 /\ d1 # d2

DomainUnion(frames) == UNION {f.dom : f \in frames}

\* C9: on return, no frame of the output has a domain strictly inside the
\* domain of an input frame; of two input frames with D1 strictly inside D2
\* the output is the frame of D2; an input frame whose domain lies in the
\* domain of no other input frame is in the output, so two frames with
\* incomparable domains are both returned; and when the domain of one input
\* frame contains every input domain the output is a single frame with that
\* domain, that frame itself when no other input frame has its domain.
C9_CoveredFramesDropped ==
    (fpc = "done") =>
        /\ \A f \in min_frame_set : \A g \in InputFrames : ~StrictlyInside(f.dom, g.dom)
        /\ \A f \in InputFrames :
              (\A g \in InputFrames \ {f} : ~(f.dom \subseteq g.dom)) => f \in min_frame_set
        /\ (Len(frame_list) = 2) =>
              /\ StrictlyInside(frame_list[1].dom, frame_list[2].dom)
                    => min_frame_set = {frame_list[2]}
              /\ StrictlyInside(frame_list[2].dom, frame_list[1].dom)
                    => min_frame_set = {frame_list[1]}
              /\ (/\ ~(frame_list[1].dom \subseteq frame_list[2].dom)
                  /\ ~(frame_list[2].dom \subseteq frame_list[1].dom))
                    => min_frame_set = {frame_list[1], frame_list[2]}
        /\ \A g \in InputFrames :
              (\A f \in InputFrames : f.dom \subseteq g.dom) =>
                  /\ Cardinality(min_frame_set) = 1
                  /\ \A f \in min_frame_set : f.dom = g.dom
                  /\ (\A f \in InputFrames \ {g} : f.dom # g.dom) => min_frame_set = {g}

C9_Witness ==
    /\ fpc = "done"
    /\ Len(frame_list) = 3
    /\ StrictlyInside(frame_list[1].dom, frame_list[3].dom)
    /\ StrictlyInside(frame_list[2].dom, frame_list[3].dom)
    /\ ~(frame_list[1].dom \subseteq frame_list[2].dom)
    /\ ~(frame_list[2].dom \subseteq frame_list[1].dom)
    /\ min_frame_set = {frame_list[3]}

\* C10: the frames returned are input frames and the union of their domains
\* is the union of the domains of all input frames.
C10_OutputCoversInput ==
    (fpc = "done") =>
        /\ min_frame_set \subseteq InputFrames
        /\ DomainUnion(min_frame_set) = DomainUnion(InputFrames)

C10_Witness ==
    /\ fpc = "done"
    /\ Len(frame_list) = 3
    /\ Cardinality(min_frame_set) = 2
    /\ DomainUnion(min_frame_set) = Points

\* C11: the frames returned are a minimal amount of frames covering the union
\* of the input domains: no set of input frames with fewer members than the
\* output has the same union of domains.
C11_MinimalAmount ==
    (fpc = "done") =>
        \A S \in SUBSET InputFrames :
            DomainUnion(S) = DomainUnion(InputFrames)
                => Cardinality(S) >= Cardinality(min_frame_set)

---------------------------------------------------------------------------
\* Matrices of mixed forms: the algebra the loop body of get_form computes in
\* (lines 768-785).  The mixed forms are those generated by one closed 2-form
\* w over the symbolic ring: component 2k of a form is a multiple of w^k, and
\* w^k = 0 once 2k exceeds the dimension.

\* A symbolic coefficient (num/den) * (1/(2*pi))^pi * (1/I)^ip, ip in {0, 1}.
Scal(n, d, p, q) ==
    IF n = 0 THEN [num |-> 0, den |-> 1, pi |-> 0, ip |-> 0]
    ELSE [num |-> n \div Gcd(Abs(n), d), den |-> d \div Gcd(Abs(n), d),
          pi |-> p, ip |-> q]

SZero == Scal(0, 1, 0, 0)

SOne == Scal(1, 1, 0, 0)

\* (1/I) * (1/I) = -1
SMul(a, b) ==
    Scal((IF a.ip = 1 /\ b.ip = 1 THEN 0 - 1 ELSE 1) * a.num * b.num,
         a.den * b.den, a.pi + b.pi, (a.ip + b.ip) % 2)

\* Sum of two coefficients with the same symbolic factor.
SAdd(a, b) ==
    CASE a.num = 0 -> b
      [] b.num = 0 -> a
      [] a.num # 0 /\ b.num # 0 /\ a.pi = b.pi /\ a.ip = b.ip ->
            Scal(a.num * b.den + b.num * a.den, a.den * b.den, a.pi, a.ip)

RECURSIVE SSum(_)
SSum(s) == IF s = <<>> THEN SZero ELSE SAdd(Head(s), SSum(Tail(s)))

\* A rational of _coeff_list as a symbolic coefficient.
Coeff(c) == Scal(c.num, c.den, 0, 0)

\* Number of components of a mixed form: degrees 0, 2, ..., 2 * (dim div 2).
FormLen(dim) == dim \div 2 + 1

\* A mixed form: f[k + 1] is the coefficient of w^k.
FZero(len) == [k \in 1..len |-> SZero]

FOne(len) == [k \in 1..len |-> IF k = 1 THEN SOne ELSE SZero]

\* The 2-form a * w.
TwoForm(a, len) == [k \in 1..len |-> IF k = 2 THEN Scal(a, 1, 0, 0) ELSE SZero]

FAdd(f, g) == [k \in DOMAIN f |-> SAdd(f[k], g[k])]

FScale(c, f) == [k \in DOMAIN f |-> SMul(c, f[k])]

\* Wedge product; w^i * w^j = w^(i+j), zero above the dimension.
FMul(f, g) ==
    [k \in DOMAIN f |-> SSum([i \in 1..k |-> SMul(f[i], g[k - i + 1])])]

RECURSIVE FSum(_, _)
FSum(s, len) == IF s = <<>> THEN FZero(len) ELSE FAdd(Head(s), FSum(Tail(s), len))

\* A square matrix is the sequence of its rows.
\* mspace.one()
MOne(rank, len) ==
    [i \in 1..rank |-> [j \in 1..rank |-> IF i = j THEN FOne(len) ELSE FZero(len)]]

MAdd(a, b) == [i \in DOMAIN a |-> [j \in DOMAIN a |-> FAdd(a[i][j], b[i][j])]]

MScale(c, a) == [i \in DOMAIN a |-> [j \in DOMAIN a |-> FScale(c, a[i][j])]]

MMul(a, b, len) ==
    [i \in DOMAIN a |-> [j \in DOMAIN a |->
        FSum([k \in DOMAIN a |-> FMul(a[i][k], b[k][j])], len)]]

\* The matrix without row i and column j.
Minor(a, i, j) ==
    [r \in 1..(Len(a) - 1) |-> [c \in 1..(Len(a) - 1) |->
        a[IF r < i THEN r ELSE r + 1][IF c < j THEN c ELSE c + 1]]]

\* rmatrix.trace()
trace(a, len) == FSum([i \in DOMAIN a |-> a[i][i]], len)

\* rmatrix.det(), by expansion along the first row.
RECURSIVE det(_, _)
det(a, len) ==
    IF Len(a) = 0 THEN FOne(len)
    ELSE FSum([j \in DOMAIN a |->
                  FScale(Scal(IF j % 2 = 1 THEN 1 ELSE 0 - 1, 1, 0, 0),
                         FMul(a[1][j], det(Minor(a, 1, j), len)))], len)

\* The matrix without rows and columns 1 and j.
Minor2(a, j) == Minor(Minor(a, j, j), 1, 1)

\* rmatrix.pfaffian() of an alternating matrix, by expansion along the first
\* row; the Pfaffian of an alternating matrix of odd size is zero.
RECURSIVE pfaffian(_, _)
pfaffian(a, len) ==
    IF Len(a) = 0 THEN FOne(len)
    ELSE IF Len(a) % 2 = 1 THEN FZero(len)
    ELSE FSum([j \in 1..(Len(a) - 1) |->
                  FScale(Scal(IF j % 2 = 1 THEN 1 ELSE 0 - 1, 1, 0, 0),
                         FMul(a[1][j + 1], pfaffian(Minor2(a, j + 1), len)))], len)

---------------------------------------------------------------------------
\* The loop body of get_form for one frame (lines 768-785)

\* _normalize_matrix dividing by I for the Pfaffian type only.
_normalize_matrix_Inverted(cm, class_type) ==
    LET fac == Scal(1, 1, 1, 0)
    IN  MScale(IF class_type = "Pfaffian" THEN SMul(fac, Scal(1, 1, 0, 1)) ELSE fac, cm)

\* Lines 838-842: fac = 1 / (2 * pi); fac = fac / I unless Pfaffian;
\* return fac * cmatrix
_normalize_matrix(cm, class_type) ==
    LET fac == Scal(1, 1, 1, 0)
    IN  MScale(IF class_type # "Pfaffian" THEN SMul(fac, Scal(1, 1, 0, 1)) ELSE fac, cm)

\* NextPower squaring the last power instead of multiplying it by cmatrix.
NextPower_Square(cm, pl, len) == MMul(pl[Len(pl)], pl[Len(pl)], len)

\* Line 812: cmatrix * power_list[pow], pow the last index of power_list.
NextPower(cm, pl, len) == MMul(cm, pl[Len(pl)], len)

\* Lines 809-812: power_list after the loop over range(n).
RECURSIVE PowerList(_, _, _, _)
PowerList(cm, n, rank, len) ==
    IF n <= 0 THEN <<MOne(rank, len)>>
    ELSE LET pl == PowerList(cm, n - 1, rank, len)
         IN  Append(pl, NextPower(cm, pl, len))

\* PolyTerm without the coefficient.
PolyTerm_NoCoeff(coeffs, pl, k) == pl[k]

\* Line 813: self._coeff_list[k] * power_list[k] (k counted from 1 here)
PolyTerm(coeffs, pl, k) == MScale(Coeff(coeffs[k]), pl[k])

\* Line 813: sum(self._coeff_list[k] * power_list[k] for k in range(len(...)))
\* for a coefficient list that is not empty.
RECURSIVE PolySum(_, _, _)
PolySum(coeffs, pl, n) ==
    IF n = 1 THEN PolyTerm(coeffs, pl, 1)
    ELSE MAdd(PolySum(coeffs, pl, n - 1), PolyTerm(coeffs, pl, n))

\* Lines 808-813: _insert_in_polynomial for a coefficient list that is not
\* empty.
_insert_in_polynomial(cm, coeffs, rank, len) ==
    PolySum(coeffs, PowerList(cm, Len(coeffs) - 1, rank, len), Len(coeffs))

\* Reduction with trace and determinant exchanged.
Reduction_Swapped(class_type, rm, len) ==
    CASE class_type = "additive" -> det(rm, len)
      [] class_type = "multiplicative" -> trace(rm, len)
      [] class_type = "Pfaffian" -> pfaffian(rm, len)

\* Lines 779-784: the reduction of rmatrix to rst.
Reduction(class_type, rm, len) ==
    CASE class_type = "additive" -> trace(rm, len)
      [] class_type = "multiplicative" -> det(rm, len)
      [] class_type = "Pfaffian" -> pfaffian(rm, len)

\* Lines 777-784 for one frame and a coefficient list that is not empty.
FrameResult(class_type, coeffs, rank, len, cm) ==
    Reduction(class_type,
              _insert_in_polynomial(_normalize_matrix(cm, class_type), coeffs, rank, len),
              len)

\* Line 777
LoopNormalize ==
    /\ ppc = "normalize"
    /\ ncmatrix' = _normalize_matrix(cmatrix, _class_type)
    /\ ppc' = "insert"
    /\ UNCHANGED <<cmatrix, power_list, mults, rmatrix, rst>>
    /\ UNCHANGED <<classVars, frameVars>>
    /\ UNCHANGED <<predefVars, dbVars, callerVars>>

\* Lines 808-809: mspace = cmatrix.parent(); power_list = [mspace.one()]
InsertBegin ==
    /\ ppc = "insert"
    /\ power_list' = <<MOne(_rank, FormLen(_dim))>>
    /\ mults' = 0
    /\ ppc' = "powers"
    /\ UNCHANGED <<cmatrix, ncmatrix, rmatrix, rst>>
    /\ UNCHANGED <<classVars, frameVars>>
    /\ UNCHANGED <<predefVars, dbVars, callerVars>>

\* Lines 810-812: one iteration of the loop over range(len(_coeff_list) - 1)
InsertPower ==
    /\ ppc = "powers"
    /\ Len(power_list) - 1 < Len(_coeff_list) - 1
    /\ power_list' = Append(power_list, NextPower(ncmatrix, power_list, FormLen(_dim)))
    /\ mults' = mults + 1
    /\ UNCHANGED <<cmatrix, ncmatrix, rmatrix, rst, ppc>>
    /\ UNCHANGED <<classVars, frameVars>>
    /\ UNCHANGED <<predefVars, dbVars, callerVars>>

\* Line 813 (line 778 binds the result to rmatrix); the sum over an empty
\* coefficient list is the Python integer 0, not a matrix.
InsertSum ==
    /\ ppc = "powers"
    /\ Len(power_list) - 1 >= Len(_coeff_list) - 1
    /\ IF Len(_coeff_list) = 0
       THEN /\ ppc' = "int_zero"
            /\ UNCHANGED rmatrix
       ELSE /\ ppc' = "reduce"
            /\ rmatrix' = PolySum(_coeff_list, power_list, Len(_coeff_list))
    /\ UNCHANGED <<cmatrix, ncmatrix, power_list, mults, rst>>
    /\ UNCHANGED <<classVars, frameVars>>
    /\ UNCHANGED <<predefVars, dbVars, callerVars>>

\* Lines 779-784; an integer has no trace, det or pfaffian method.
Reduce ==
    /\ ppc \in {"reduce", "int_zero"}
    /\ IF ppc = "int_zero"
       THEN /\ ppc' = "AttributeError"
            /\ UNCHANGED rst
       ELSE /\ ppc' = "done"
            /\ rst' = Reduction(_class_type, rmatrix, FormLen(_dim))
    /\ UNCHANGED <<cmatrix, ncmatrix, power_list, mults, rmatrix>>
    /\ UNCHANGED <<classVars, frameVars>>
    /\ UNCHANGED <<predefVars, dbVars, callerVars>>

\* Coefficients a of the curvature 2-forms a * w drawn as matrix entries.
EntryCoeffs == {0, 1}

\* The curvature matrix with entry as[i, j] * w in row i, column j.
CurvatureMatrix(as, rank, len) ==
    [i \in 1..rank |-> [j \in 1..rank |-> TwoForm(as[<<i, j>>], len)]]

\* The alternating curvature matrix (of a metric connection in an
\* orthonormal frame) with the entries of as above the diagonal.
AlternatingMatrix(as, rank, len) ==
    [i \in 1..rank |-> [j \in 1..rank |->
        IF i < j THEN TwoForm(as[<<i, j>>], len)
        ELSE IF i > j THEN TwoForm(0 - as[<<j, i>>], len)
        ELSE FZero(len)]]

\* A class object as __init__ leaves it (lines 460-471) and get_form at the
\* head of the loop over the frames (line 768) with the curvature matrix of
\* one frame; rank 0 of the Pfaffian type does not reach the loop (line 745).
InitLoop ==
    /\ \E field \in FieldTypes, class_type \in ClassTypeArgs, rank \in 0..MaxRank,
          dim \in 1..MaxDim, func \in Funcs :
          /\ ArgsAccepted(field, class_type, rank)
          /\ ~(class_type = "Pfaffian" /\ rank = 0)
          /\ constructed = TRUE
          /\ _field_type = field
          /\ _class_type = class_type
          /\ _rank = rank
          /\ _dim = dim
          /\ _func = func
          /\ _coeff_list = _get_coeff_list(func, field, class_type, dim)
          /\ init_call = [field |-> field, class_type |-> class_type,
                          rank |-> rank, func |-> func, err |-> "none"]
          /\ \E as \in [(1..rank) \X (1..rank) -> EntryCoeffs] :
                cmatrix = IF class_type = "Pfaffian"
                          THEN AlternatingMatrix(as, rank, FormLen(dim))
                          ELSE CurvatureMatrix(as, rank, FormLen(dim))
    /\ _mixed_forms = EmptyDict
    /\ next_id = 1
    /\ last = NoCall
    /\ frame_list = <<>>
    /\ fidx = 0
    /\ min_frame_set = {}
    /\ redund_frame_set = {}
    /\ broke = FALSE
    /\ fpc = "idle"
    /\ ncmatrix = <<>>
    /\ power_list = <<>>
    /\ mults = 0
    /\ rmatrix = <<>>
    /\ rst = <<>>
    /\ ppc = "normalize"
    /\ NoLookup
    /\ NoDatabase
    /\ NoCallers

NextLoop ==
    \/ LoopNormalize
    \/ InsertBegin
    \/ InsertPower
    \/ InsertSum
    \/ Reduce

SpecLoop == InitLoop /\ [][NextLoop]_vars

---------------------------------------------------------------------------
\* Properties of the loop body of get_form (specification SpecLoop)

\* The class type of the other of the two types additive, multiplicative.
OtherType == IF _class_type = "additive" THEN "multiplicative" ELSE "additive"

\* rst of the class object of the other type with the same vector bundle,
\* defining function and curvature matrix.
OtherResult ==
    FrameResult(OtherType, _get_coeff_list(_func, _field_type, OtherType, _dim),
                _rank, FormLen(_dim), cmatrix)

\* rst is the reduction that belongs to the class type.
ReductionByType ==
    /\ (_class_type = "additive") => rst = trace(rmatrix, FormLen(_dim))
    /\ (_class_type = "multiplicative") => rst = det(rmatrix, FormLen(_dim))
    /\ (_class_type = "Pfaffian") => rst = pfaffian(rmatrix, FormLen(_dim))

\* C12 as stated: the reduction is selected by the class type alone, trace
\* for additive, determinant for multiplicative, Pfaffian for Pfaffian; and
\* for the same function and matrices an additive and a multiplicative class
\* give different results whenever the trace of the matrix differs from its
\* determinant.
C12_DifferentResults ==
    (ppc = "done") =>
        /\ ReductionByType
        /\ (/\ _class_type \in {"additive", "multiplicative"}
            /\ trace(rmatrix, FormLen(_dim)) # det(rmatrix, FormLen(_dim)))
              => rst # OtherResult

\* C12 amended: the reduction is selected by the class type alone; on a
\* complex bundle, where both types insert the matrix in the same polynomial,
\* an additive and a multiplicative class give different results whenever
\* the trace of the matrix polynomial differs from its determinant.
C12_ReductionByClassType ==
    (ppc = "done") =>
        /\ ReductionByType
        /\ (/\ _class_type \in {"additive", "multiplicative"}
            /\ _field_type = "complex"
            /\ trace(rmatrix, FormLen(_dim)) # det(rmatrix, FormLen(_dim)))
              => rst # OtherResult

C12_Witness ==
    /\ ppc = "done"
    /\ _class_type = "additive"
    /\ _field_type = "complex"
    /\ _rank = 2
    /\ cmatrix[1][2] # FZero(FormLen(_dim))
    /\ trace(rmatrix, FormLen(_dim)) # det(rmatrix, FormLen(_dim))
    /\ rst # OtherResult

\* C13: for a multiplicative class with f(x) = 1 + x on a complex bundle of
\* rank 1 and the curvature matrix (a * w), the result has degree-0 component
\* 1, degree-2 component a * w / (2*pi*I) and zero components above.
C13_ChernClassOfLineBundle ==
    (/\ ppc = "done"
     /\ _class_type = "multiplicative"
     /\ _field_type = "complex"
     /\ _func = <<1, 1, 0>>
     /\ _rank = 1) =>
        \A k \in 1..FormLen(_dim) :
            rst[k] = IF k = 1 THEN [num |-> 1, den |-> 1, pi |-> 0, ip |-> 0]
                     ELSE IF k = 2 /\ cmatrix[1][1][2].num # 0
                     THEN [num |-> cmatrix[1][1][2].num, den |-> 1, pi |-> 1, ip |-> 1]
                     ELSE [num |-> 0, den |-> 1, pi |-> 0, ip |-> 0]

C13_Witness ==
    /\ ppc = "done"
    /\ _class_type = "multiplicative"
    /\ _field_type = "complex"
    /\ _func = <<1, 1, 0>>
    /\ _rank = 1
    /\ _dim = 4
    /\ cmatrix[1][1][2].num = 1
    /\ rst[2] = [num |-> 1, den |-> 1, pi |-> 1, ip |-> 1]
    /\ rst[3].num = 0

MZero(rank, len) == [i \in 1..rank |-> [j \in 1..rank |-> FZero(len)]]

\* The power m^k, with m^0 the identity.
RECURSIVE MatPow(_, _, _, _)
MatPow(m, k, rank, len) ==
    IF k = 0 THEN MOne(rank, len) ELSE MMul(MatPow(m, k - 1, rank, len), m, len)

\* The sum of coeffs[k] * m^(k-1) over the indices from k on.
RECURSIVE PolyValue(_, _, _, _, _)
PolyValue(coeffs, m, k, rank, len) ==
    IF k > Len(coeffs) THEN MZero(rank, len)
    ELSE MAdd(MScale(Coeff(coeffs[k]), MatPow(m, k - 1, rank, len)),
              PolyValue(coeffs, m, k + 1, rank, len))

\* C14: for the coefficients c[0..d] and the matrix M, _insert_in_polynomial
\* returns the sum of c[k] * M^k with M^0 the identity, having built the
\* powers M^0..M^d with exactly d matrix products; for d = 0 the result is
\* c[0] * identity.
C14_MatrixPolynomial ==
    (ppc \in {"reduce", "done"}) =>
        LET d == Len(_coeff_list) - 1
            len == FormLen(_dim)
        IN  /\ mults = d
            /\ Len(power_list) = d + 1
            /\ \A k \in 0..d : power_list[k + 1] = MatPow(ncmatrix, k, _rank, len)
            /\ rmatrix = PolyValue(_coeff_list, ncmatrix, 1, _rank, len)
            /\ (d = 0) => rmatrix = MScale(Coeff(_coeff_list[1]), MOne(_rank, len))

C14_Witness ==
    /\ ppc = "done"
    /\ Len(_coeff_list) = 3
    /\ mults = 2
    /\ _rank = 2
    /\ power_list[3] # MZero(_rank, FormLen(_dim))
    /\ rmatrix[1][2] # FZero(FormLen(_dim))

---------------------------------------------------------------------------
\* _get_predefined_class (lines 326-371)

\* An entry of c_dict: (field_type, class_type, name, latex_name, func),
\* func written as the expression in x.
PredefinedClass(field_type, class_type, name, latex_name, func) ==
    [field_type |-> field_type, class_type |-> class_type, name |-> name,
     latex_name |-> latex_name, func |-> func]

PredefinedNames ==
    {"ChernChar", "Todd", "Chern", "Pontryagin", "AHat", "Hirzebruch", "Euler"}

\* Lines 354-364
c_dict ==
    [arg \in PredefinedNames |->
        CASE arg = "ChernChar" ->
                PredefinedClass("complex", "additive", "ch", "\\mathrm{ch}", "exp(x)")
          [] arg = "Todd" ->
                PredefinedClass("complex", "additive", "Td", "\\mathrm{Td}",
                                "x/(1-exp(-x))")
          [] arg = "Chern" ->
                PredefinedClass("complex", "multiplicative", "c", "c", "1+x")
          [] arg = "Pontryagin" ->
                PredefinedClass("real", "multiplicative", "p", "p", "1+x")
          [] arg = "AHat" ->
                PredefinedClass("real", "multiplicative", "A^", "\\hat{A}",
                                "sqrt(x)/(2*sinh(sqrt(x)/2))")
          [] arg = "Hirzebruch" ->
                PredefinedClass("real", "multiplicative", "L", "L",
                                "sqrt(x)/tanh(sqrt(x))")
          [] arg = "Euler" ->
                PredefinedClass("real", "Pfaffian", "e", "e", "x")]

\* Arguments that are not strings.
NotStrings == {"the integer 1"}

\* Strings that are not keys of c_dict.
OtherNames == {"StiefelWhitney"}

NoClass == PredefinedClass("none", "none", "none", "none", "none")

\* Lines 346-371: the outcome of _get_predefined_class(arg).
_get_predefined_class(arg) ==
    IF arg \in NotStrings THEN [err |-> "TypeError", res |-> NoClass]
    ELSE IF arg \notin DOMAIN c_dict THEN [err |-> "ValueError", res |-> NoClass]
    ELSE [err |-> "none", res |-> c_dict[arg]]

\* A call of _get_predefined_class.
GetPredefinedClass(arg) ==
    /\ Len(lookups) < MaxLookups
    /\ lookups' = Append(lookups, [arg |-> arg, out |-> _get_predefined_class(arg)])
    /\ UNCHANGED <<classVars, frameVars, loopVars, dbVars, callerVars>>

NextPredefined ==
    \E arg \in PredefinedNames \cup OtherNames \cup NotStrings : GetPredefinedClass(arg)

SpecPredefined == Init /\ [][NextPredefined]_vars

\* C16: looking up 'Todd' yields the base field complex, the class type
\* multiplicative and the function x/(1-exp(-x)).
C16_ToddIsMultiplicative ==
    \A i \in DOMAIN lookups :
        (lookups[i].arg = "Todd") =>
            /\ lookups[i].out.err = "none"
            /\ lookups[i].out.res.field_type = "complex"
            /\ lookups[i].out.res.class_type = "multiplicative"
            /\ lookups[i].out.res.func = "x/(1-exp(-x))"

---------------------------------------------------------------------------
\* sage.coding.two_weight_db: the database of two-weight codes

\* Lines 40-383: the list data.  K is the order q of the field GF(q); a row
\* of M is the sequence of its symbols as field elements 0..q-1, with the
\* elements x and x^2 of GF(4, name='x') written 2 and 3 (line 387 builds
\* the matrix over K from list(R) of every row R), in the order of the
\* source, before the sort of line 394.
data == <<
    \* line 42
    [n |-> 68, k |-> 8, w1 |-> 32, w2 |-> 40, K |-> 2,
     M |-> <<
        <<1,0,0,0,0,0,0,0,1,0,0,1,1,1,1,0,0,1,1,0,0,0,0,0,0,1,1,0,1,0,0,0,1,0,0,1,1,1,0,0,0,0,1,1,
          1,0,0,1,0,1,0,1,1,0,1,0,1,1,1,1,1,1,0,1,0,1,1,0>>,
        <<0,1,0,0,0,0,0,0,0,1,0,0,1,1,1,1,0,0,1,1,0,0,0,0,0,0,1,1,0,1,0,0,0,1,0,0,1,1,1,0,0,0,0,1,
          1,1,0,0,1,0,1,0,1,1,0,1,0,1,1,1,1,1,1,0,1,0,1,1>>,
        <<0,0,1,0,0,0,0,0,0,0,1,0,0,1,1,1,1,1,0,1,1,0,0,0,0,0,0,1,1,0,1,0,0,0,1,0,0,1,1,1,0,0,0,0,
          1,1,1,0,0,1,0,1,0,1,1,0,1,0,1,1,1,1,1,1,0,1,0,1>>,
        <<0,0,0,1,0,0,0,0,1,0,0,0,1,1,0,1,1,1,0,0,1,1,0,0,0,1,1,0,0,1,0,1,1,0,0,0,1,1,1,1,1,0,1,1,
          1,1,1,0,0,1,1,0,0,0,0,1,1,0,1,0,0,0,1,0,1,1,0,0>>,
        <<0,0,0,0,1,0,0,0,1,1,0,1,1,0,0,0,1,1,0,0,0,1,1,0,0,1,0,1,1,0,1,0,0,1,1,1,1,0,1,1,1,1,1,0,
          0,1,1,0,0,1,1,1,1,0,1,0,0,0,1,0,1,1,0,0,0,0,0,0>>,
        <<0,0,0,0,0,1,0,0,1,1,1,1,0,0,1,0,0,0,0,0,0,0,1,1,0,1,0,0,0,1,0,1,1,0,1,0,0,0,0,1,1,1,0,0,
          1,0,1,0,0,1,1,1,0,1,1,1,1,1,1,0,1,0,1,1,0,1,1,0>>,
        <<0,0,0,0,0,0,1,0,0,1,1,1,1,0,0,1,0,0,0,0,0,0,0,1,1,0,1,0,0,0,1,0,1,1,1,1,0,0,0,0,1,1,1,0,
          0,1,0,1,0,0,1,0,1,0,1,1,1,1,1,1,0,1,0,1,1,0,1,1>>,
        <<0,0,0,0,0,0,0,1,0,0,1,1,1,1,0,0,1,1,0,0,0,0,0,0,1,1,0,1,0,0,0,1,0,1,1,1,1,0,0,0,0,1,1,1,
          0,0,1,0,1,0,0,1,0,1,0,1,1,1,1,1,1,0,1,0,1,1,0,1>>>>],
    \* line 58
    [n |-> 140, k |-> 6, w1 |-> 90, w2 |-> 99, K |-> 3,
     M |-> <<
        <<1,0,1,1,1,0,1,1,1,1,1,1,1,1,1,0,1,1,1,0,1,0,1,1,1,0,1,1,1,1,0,0,1,1,1,0,1,1,1,1,1,0,1,1,
          1,0,1,1,1,1,1,0,1,0,0,1,0,0,1,1,1,1,0,1,1,0,1,1,0,1,1,1,1,1,1,0,0,1,0,0,1,1,1,1,0,1,0,0,
          0,1,1,1,1,0,1,1,1,1,1,0,1,1,0,0,0,1,1,0,1,1,0,0,1,1,1,1,1,0,1,1,1,0,1,1,1,1,1,0,1,0,1,1,
          1,1,1,1,1,0,0,1>>,
        <<0,1,2,2,0,1,2,1,1,1,1,2,1,1,0,1,1,1,0,1,0,1,1,1,0,1,1,1,2,1,0,1,2,2,0,0,2,2,1,2,0,1,2,1,
          0,1,1,2,2,2,0,1,0,1,1,0,0,1,1,0,1,0,1,2,0,1,1,0,1,1,2,1,1,2,0,0,1,1,0,1,0,2,1,0,1,0,1,0,
          1,1,1,1,0,1,2,2,1,1,0,1,1,0,0,0,0,2,0,1,1,0,0,1,2,2,2,1,2,1,2,1,0,1,0,1,1,1,0,1,2,1,1,1,
          2,2,0,2,0,0,1,1>>,
        <<2,2,1,0,2,0,2,1,1,1,2,1,1,0,1,1,1,1,2,0,2,1,1,0,2,1,1,2,2,0,1,2,1,0,0,0,1,2,2,0,2,2,2,0,
          1,1,2,1,1,0,1,0,1,2,0,0,1,1,0,1,0,1,2,0,2,1,0,2,1,2,2,1,2,0,0,1,1,1,1,0,0,2,0,2,0,1,2,1,
          1,1,1,0,0,2,1,2,1,0,1,1,0,0,0,0,1,0,1,2,0,0,1,2,1,2,2,2,1,2,2,0,1,0,2,1,1,0,2,2,2,1,1,2,
          1,0,1,1,0,1,0,1>>,
        <<1,1,0,1,0,2,2,1,1,2,1,1,0,1,1,1,1,1,0,2,2,1,0,2,2,1,2,2,0,2,2,1,0,0,0,1,1,1,0,1,1,1,0,1,
          1,2,1,1,0,2,0,1,2,1,0,1,1,0,1,0,1,2,0,1,2,0,2,2,2,2,2,0,0,0,2,1,1,2,0,0,2,0,2,0,1,2,2,1,
          1,1,0,0,1,1,1,2,0,1,2,0,0,0,0,1,1,2,2,0,0,1,2,1,1,0,1,1,1,2,0,1,0,2,1,1,0,2,1,2,2,1,2,1,
          0,2,1,2,1,0,0,1>>,
        <<2,0,2,0,1,1,2,1,2,1,1,1,1,1,1,1,1,0,1,2,2,0,2,0,2,2,2,0,1,2,1,0,0,0,1,2,2,0,1,2,2,1,2,1,
          2,1,1,0,1,0,1,2,1,0,1,1,0,1,0,0,2,0,1,1,0,1,2,1,2,2,0,2,0,1,2,1,2,0,0,2,0,1,0,2,2,2,0,1,
          1,0,0,1,1,1,1,0,1,2,1,0,0,0,1,1,0,1,0,2,1,2,1,1,0,0,2,1,2,0,2,0,2,1,1,0,2,1,1,2,2,2,1,0,
          1,2,1,1,0,0,1,1>>,
        <<0,2,0,2,2,2,2,2,1,1,1,1,1,1,1,1,0,1,1,2,0,2,0,1,1,2,0,1,1,2,0,0,0,2,2,1,0,2,2,1,2,2,2,2,
          1,1,0,1,0,2,2,1,0,1,1,0,1,0,0,1,0,1,1,0,2,2,1,1,2,0,1,2,1,1,2,2,0,0,2,0,0,0,2,1,2,0,1,1,
          0,0,1,1,1,1,0,2,2,1,1,0,0,1,1,0,0,0,2,1,2,1,1,0,0,2,2,2,1,2,0,2,1,1,0,2,1,1,1,2,0,1,0,1,
          1,2,2,2,0,1,0,1>>>>],
    \* line 72
    [n |-> 98, k |-> 6, w1 |-> 63, w2 |-> 72, K |-> 3,
     M |-> <<
        <<1,0,0,0,0,0,2,1,0,2,2,1,1,2,1,2,1,1,2,1,1,1,0,1,2,2,0,0,0,1,1,0,1,1,2,0,0,2,0,1,0,0,1,1,
          1,0,0,1,2,0,0,2,2,1,1,0,1,2,0,2,0,0,1,2,0,1,1,1,2,2,0,2,2,0,1,2,2,1,2,0,0,1,2,0,1,2,1,0,
          0,2,0,1,1,1,0,2,1,0>>,
        <<0,1,0,0,0,0,2,0,1,2,1,0,2,0,2,0,0,2,0,0,2,1,1,1,0,1,2,0,2,1,2,1,1,2,0,0,0,2,2,1,1,0,0,2,
          2,1,0,1,0,0,0,2,1,0,2,1,2,0,2,2,2,0,1,1,2,1,2,2,0,1,2,2,1,2,1,0,1,1,0,2,0,1,0,2,1,0,0,1,
          0,2,2,1,2,2,1,2,0,1>>,
        <<0,0,1,0,0,0,2,1,0,0,1,2,1,1,0,1,1,1,1,1,1,1,1,2,0,2,1,2,0,0,2,2,2,2,1,0,0,2,2,0,1,1,1,1,
          0,2,1,1,0,1,0,2,1,2,1,2,2,1,0,1,2,2,1,0,1,0,2,0,1,2,1,1,1,1,0,0,2,0,0,0,2,1,0,0,0,0,1,0,
          1,2,2,2,2,0,2,0,0,0>>,
        <<0,0,0,1,0,0,2,2,1,2,2,2,0,0,2,2,2,2,0,2,2,0,1,2,1,2,2,1,1,1,1,2,0,0,1,1,0,2,2,0,0,1,1,2,
          2,0,2,2,0,2,1,2,1,2,0,1,2,1,1,2,1,2,0,1,0,2,1,0,2,0,2,0,0,1,2,2,2,1,2,0,0,0,0,0,0,2,1,1,
          0,0,2,1,0,0,0,1,1,0>>,
        <<0,0,0,0,1,0,2,1,2,0,1,0,0,2,0,1,0,0,1,1,0,2,0,2,1,0,2,2,1,2,2,1,0,1,2,1,1,2,2,0,0,0,1,2,
          0,2,0,0,1,1,2,0,1,2,0,0,1,1,1,0,2,1,0,2,1,1,0,2,2,1,2,1,2,0,2,1,1,1,0,2,0,1,2,0,0,2,0,1,
          1,2,0,1,2,1,0,2,2,1>>,
        <<0,0,0,0,0,1,2,0,1,1,2,2,1,2,1,2,2,1,2,2,2,0,2,1,1,0,0,2,2,2,0,2,2,1,0,0,1,0,2,0,0,0,2,2,
          0,0,2,1,2,0,1,1,2,2,0,0,1,0,1,0,0,2,2,0,2,2,2,1,1,1,1,1,0,2,1,1,0,1,0,0,2,1,0,2,1,2,0,0,
          1,0,2,2,2,0,1,2,0,2>>>>],
    \* line 86
    [n |-> 84, k |-> 6, w1 |-> 54, w2 |-> 63, K |-> 3,
     M |-> <<
        <<1,0,0,0,0,0,2,1,0,2,2,1,1,2,1,2,1,1,2,1,1,2,1,2,1,0,0,0,0,2,0,2,0,0,2,2,1,0,2,2,2,0,0,1,
          0,2,0,2,1,0,0,2,2,0,1,1,2,2,1,1,1,1,1,0,2,2,0,1,2,2,0,2,2,2,0,0,0,1,2,1,0,0,2,0>>,
        <<0,1,0,0,0,0,2,0,1,2,1,0,2,0,2,0,0,2,0,0,2,2,0,0,0,1,0,0,2,2,2,2,2,0,2,2,0,1,2,1,1,2,1,1,
          1,2,2,2,0,1,0,2,1,2,1,2,0,1,0,2,2,2,2,2,2,1,2,1,0,1,0,2,1,1,2,0,0,1,0,0,1,0,2,2>>,
        <<0,0,1,0,0,0,2,1,0,0,1,2,1,1,0,1,1,1,1,1,1,2,0,2,1,0,1,0,2,1,2,1,2,2,2,1,0,0,0,1,0,1,0,2,
          1,0,2,1,0,2,1,2,1,1,0,2,1,2,2,1,0,0,0,1,1,1,1,0,0,2,0,2,1,0,1,2,0,0,0,1,0,1,2,2>>,
        <<0,0,0,1,0,0,2,2,1,2,2,2,0,0,2,2,2,2,0,2,2,2,0,2,0,1,0,1,2,1,1,1,1,2,1,0,2,0,2,2,0,0,0,1,
          2,0,0,1,2,2,2,0,1,1,2,1,2,0,0,0,2,1,1,2,0,0,1,2,2,2,0,2,1,0,0,1,2,0,2,1,1,0,0,2>>,
        <<0,0,0,0,1,0,2,1,2,0,1,0,0,2,0,1,0,0,1,1,0,0,0,2,0,0,1,0,1,1,1,0,1,1,1,2,1,2,2,1,1,0,2,1,
          1,1,0,2,2,1,2,1,2,1,2,0,0,1,1,1,1,0,2,2,1,2,0,2,1,1,2,2,1,0,0,0,1,0,2,0,1,1,2,0>>,
        <<0,0,0,0,0,1,2,0,1,1,2,2,1,2,1,2,2,1,2,2,2,2,1,2,0,0,0,1,1,0,1,0,0,1,0,2,0,1,1,1,0,1,2,0,
          1,0,1,2,0,0,1,1,0,2,2,0,1,2,2,2,2,2,1,1,1,0,2,1,1,0,1,1,1,0,0,0,0,1,2,0,0,1,0,2>>>>],
    \* line 100
    [n |-> 56, k |-> 6, w1 |-> 36, w2 |-> 45, K |-> 3,
     M |-> <<
        <<1,0,0,0,0,0,2,1,0,2,2,1,1,2,0,2,2,2,1,0,2,0,2,2,0,0,2,0,2,1,2,2,2,2,1,1,2,0,2,0,0,1,1,2,
          1,0,0,2,0,0,1,1,1,1,0,2>>,
        <<0,1,0,0,0,0,2,0,1,2,1,0,2,0,2,2,1,1,0,1,2,0,2,1,2,0,2,2,0,0,0,1,1,1,0,2,0,2,2,2,0,1,1,0,
          0,1,0,2,2,2,1,2,2,2,1,2>>,
        <<0,0,1,0,0,0,2,1,0,0,1,2,1,1,2,1,1,0,2,0,0,2,2,1,1,2,2,2,2,1,2,2,0,0,2,2,1,0,1,2,2,1,0,0,
          1,0,1,2,2,2,0,2,0,0,2,0>>,
        <<0,0,0,1,0,0,2,2,1,2,2,2,0,0,0,1,0,0,1,2,2,2,1,1,1,1,1,2,1,0,0,1,1,2,1,2,1,1,2,1,2,0,0,2,
          1,1,0,0,2,0,0,1,0,1,0,1>>,
        <<0,0,0,0,1,0,2,1,2,0,1,0,0,2,2,2,0,2,1,1,1,2,1,0,1,1,0,1,0,2,2,2,0,0,0,1,1,1,0,2,1,0,0,2,
          0,1,1,2,0,1,1,1,2,1,1,2>>,
        <<0,0,0,0,0,1,2,0,1,1,2,2,1,2,1,1,1,2,0,1,0,1,1,0,0,1,0,0,2,1,1,1,1,2,1,1,0,1,0,0,2,2,1,2,
          0,0,1,0,2,2,2,2,2,0,1,0>>>>],
    \* line 114
    [n |-> 65, k |-> 4, w1 |-> 50, w2 |-> 55, K |-> 5,
     M |-> <<
        <<1,0,0,0,4,3,2,3,4,3,4,4,4,4,2,3,4,2,2,1,2,2,3,4,4,1,1,3,0,1,0,1,0,3,4,4,3,1,2,3,4,0,0,4,
          4,4,1,1,4,1,0,0,3,1,1,0,4,0,0,2,0,3,2,4,0>>,
        <<0,1,0,0,3,0,2,3,1,0,1,2,2,0,3,3,1,3,1,4,0,1,3,1,2,1,1,2,3,2,1,2,1,1,1,2,0,0,0,1,1,4,0,3,
          2,2,1,3,4,1,1,0,1,0,3,1,3,4,0,4,2,1,2,0,4>>,
        <<0,0,1,0,4,1,2,0,2,4,4,0,1,1,2,1,2,3,0,2,1,2,4,2,0,3,1,4,2,4,2,2,2,4,0,0,0,1,2,3,0,1,4,4,
          2,1,3,2,2,0,1,1,1,2,1,3,0,3,4,2,4,0,3,1,0>>,
        <<0,0,0,1,2,3,2,1,2,1,1,1,2,3,2,1,3,3,4,3,3,2,1,1,4,3,2,0,4,0,4,0,2,1,1,2,4,3,2,1,0,0,1,1,
          1,4,4,1,4,0,0,1,4,4,0,1,0,0,3,0,2,3,1,0,1>>>>],
    \* line 126
    [n |-> 52, k |-> 4, w1 |-> 40, w2 |-> 45, K |-> 5,
     M |-> <<
        <<1,0,0,0,4,3,2,3,4,3,4,4,4,4,2,3,4,2,2,1,2,2,3,4,4,1,2,3,1,1,3,0,4,1,0,1,1,0,2,2,2,2,1,4,
          1,4,3,1,0,4,3,1>>,
        <<0,1,0,0,3,0,2,3,1,0,1,2,2,0,3,3,1,3,1,4,0,1,3,1,2,1,3,3,0,3,2,3,3,1,1,2,3,1,4,1,1,1,4,4,
          1,4,0,0,1,3,0,0>>,
        <<0,0,1,0,4,1,2,0,2,4,4,0,1,1,2,1,2,3,0,2,1,2,4,2,0,3,0,1,4,1,1,2,2,4,1,2,3,3,3,2,3,3,2,3,
          0,0,2,1,0,0,1,1>>,
        <<0,0,0,1,2,3,2,1,2,1,1,1,2,3,2,1,3,3,4,3,3,2,1,1,4,3,2,4,4,2,0,1,4,0,4,4,0,3,4,3,3,4,1,4,
          1,2,4,0,1,2,4,4>>>>],
    \* line 138
    [n |-> 39, k |-> 4, w1 |-> 30, w2 |-> 35, K |-> 5,
     M |-> <<
        <<1,1,1,1,1,1,1,1,1,1,1,1,1,1,1,1,1,1,1,1,1,1,1,1,1,1,1,1,1,1,0,0,0,0,0,0,0,0,0>>,
        <<1,1,1,1,1,1,2,2,2,2,2,2,3,3,3,3,3,3,4,4,4,4,4,4,0,0,0,0,0,0,1,1,1,1,1,1,0,0,0>>,
        <<2,2,3,3,0,0,1,3,3,4,4,0,1,1,2,2,4,0,1,1,2,2,4,0,1,3,3,4,4,0,1,2,3,4,0,0,1,1,0>>,
        <<4,0,2,3,4,0,4,1,4,2,0,1,1,4,2,3,0,1,1,3,2,0,1,3,2,3,4,2,3,0,0,4,4,3,3,0,4,0,1>>>>],
    \* line 150
    [n |-> 55, k |-> 5, w1 |-> 36, w2 |-> 45, K |-> 3,
     M |-> <<
        <<1,0,0,0,0,1,0,1,2,2,2,0,0,1,2,0,1,2,1,0,0,2,2,1,1,0,2,2,1,1,1,1,0,1,0,1,1,2,1,2,1,1,2,0,
          2,2,0,2,2,0,2,0,0,0,2>>,
        <<0,1,0,0,0,1,1,1,0,1,1,2,0,1,0,2,1,0,0,1,0,2,2,0,2,1,2,1,0,2,2,2,1,1,1,1,2,0,0,0,0,2,0,2,
          1,1,2,2,1,2,2,2,0,0,2>>,
        <<0,0,1,0,0,2,1,0,2,1,2,2,2,2,2,0,1,2,2,0,1,1,2,1,2,2,2,0,0,2,1,1,2,1,1,0,0,0,2,1,2,2,0,0,
          0,2,1,0,0,1,0,2,2,0,1>>,
        <<0,0,0,1,0,1,2,2,2,1,0,1,2,0,1,2,1,0,0,2,0,0,1,0,2,2,1,1,1,1,0,2,1,1,1,2,1,2,1,1,2,0,1,0,
          0,2,2,0,2,0,0,0,2,2,2>>,
        <<0,0,0,0,1,0,1,2,2,2,1,0,1,2,0,1,2,1,0,0,2,0,1,1,0,2,2,1,1,1,1,0,2,0,1,1,2,1,2,1,1,2,0,1,
          2,0,2,2,0,2,0,0,0,2,2>>>>],
    \* line 163
    [n |-> 126, k |-> 6, w1 |-> 81, w2 |-> 90, K |-> 3,
     M |-> <<
        <<1,0,0,0,0,0,2,1,0,2,2,1,1,2,1,2,1,1,2,1,1,1,0,1,2,2,0,0,2,1,2,1,0,0,0,0,1,0,0,0,1,1,0,2,
          0,2,0,0,2,0,1,1,0,1,1,2,1,0,2,1,1,2,2,1,0,2,0,2,0,1,1,1,1,0,0,1,2,2,1,2,2,2,2,1,1,2,0,2,
          0,0,1,1,0,0,0,1,0,1,0,2,2,2,0,0,0,0,2,1,1,1,0,1,1,0,0,1,1,2,1,1,1,1,0,2,1,0>>,
        <<0,1,0,0,0,0,2,0,1,2,1,0,2,0,2,0,0,2,0,0,2,1,1,1,0,1,2,0,2,0,0,0,1,0,0,1,1,1,0,0,1,2,2,2,
          2,2,2,0,2,2,1,2,1,1,2,0,0,1,2,0,2,0,1,2,1,2,2,2,2,1,0,2,2,1,0,1,0,0,0,0,1,1,1,0,2,0,2,2,
          2,0,1,2,1,0,0,1,1,1,0,2,1,1,2,0,0,1,2,0,2,2,1,1,2,1,0,1,2,0,0,1,2,2,1,2,0,1>>,
        <<0,0,1,0,0,0,2,1,0,0,1,2,1,1,0,1,1,1,1,1,1,1,1,2,0,2,1,2,2,0,2,1,0,1,0,2,2,1,1,0,1,2,2,1,
          2,1,2,2,2,0,0,2,2,2,2,1,2,0,0,0,1,1,2,2,2,0,2,1,2,0,1,1,0,2,1,1,0,2,1,2,2,0,0,2,2,1,0,1,
          2,2,1,2,2,1,0,1,1,2,0,2,1,0,1,2,0,1,0,0,1,0,2,2,1,2,1,1,2,1,1,2,2,0,2,0,0,0>>,
        <<0,0,0,1,0,0,2,2,1,2,2,2,0,0,2,2,2,2,0,2,2,0,1,2,1,2,2,1,2,0,2,0,1,0,1,2,0,2,1,1,1,2,2,1,
          1,1,1,2,1,1,1,1,2,0,0,1,0,2,2,1,1,0,0,1,2,1,0,1,1,0,1,2,2,0,2,2,0,1,0,0,1,1,2,1,2,1,1,2,
          1,2,0,0,2,2,1,1,1,2,0,2,1,0,0,1,2,2,0,1,1,2,0,0,2,1,2,2,2,1,2,1,0,0,0,1,1,0>>,
        <<0,0,0,0,1,0,2,1,2,0,1,0,0,2,0,1,0,0,1,1,0,2,0,2,1,0,2,2,0,0,2,0,0,1,0,2,0,0,2,1,2,2,1,1,
          1,0,1,1,1,1,2,2,1,0,1,2,1,0,1,0,2,0,2,1,1,1,1,2,1,2,1,2,0,2,0,0,1,0,2,2,2,0,0,0,1,1,1,0,
          2,1,0,0,0,2,2,2,1,2,2,2,1,0,0,0,1,0,1,1,2,2,2,1,0,2,1,0,0,1,2,1,2,1,0,2,2,1>>,
        <<0,0,0,0,0,1,2,0,1,1,2,2,1,2,1,2,2,1,2,2,2,0,2,1,1,0,0,2,2,1,2,0,0,0,1,2,0,0,0,2,2,0,1,0,
          1,0,0,1,0,2,2,0,2,2,1,0,0,1,2,2,1,1,2,0,1,0,1,0,2,2,2,2,0,0,2,1,2,2,1,1,1,1,2,1,1,0,1,0,
          0,2,2,0,0,0,2,0,2,2,1,1,1,0,0,0,0,1,2,2,2,0,2,0,0,0,2,2,1,2,2,2,2,0,1,2,0,2>>>>],
    \* line 177
    [n |-> 154, k |-> 6, w1 |-> 99, w2 |-> 108, K |-> 3,
     M |-> <<
        <<1,0,0,0,0,0,2,1,0,2,2,1,1,2,1,2,1,1,2,1,1,1,0,1,2,2,0,0,2,1,2,1,0,0,0,0,1,0,0,0,1,1,0,2,
          0,2,0,0,2,0,1,1,0,1,1,2,1,0,2,1,1,2,2,0,2,2,2,1,0,2,1,0,2,0,2,0,1,2,0,2,0,2,2,1,2,1,0,2,
          2,2,0,2,2,2,0,2,2,2,2,2,1,1,0,1,2,2,2,1,0,0,2,2,2,0,1,2,1,1,2,2,2,1,1,1,1,1,0,2,1,1,1,0,
          1,1,2,1,0,0,2,0,1,1,1,0,2,1,0,1,1,1,1,0,0,2>>,
        <<0,1,0,0,0,0,2,0,1,2,1,0,2,0,2,0,0,2,0,0,2,1,1,1,0,1,2,0,2,0,0,0,1,0,0,1,1,1,0,0,1,2,2,2,
          2,2,2,0,2,2,1,2,1,1,2,0,0,1,2,0,2,0,1,2,2,1,1,0,1,2,2,1,2,2,2,2,1,0,2,2,2,2,1,0,2,0,1,2,
          1,1,2,1,1,1,2,2,1,1,1,1,0,2,1,1,0,1,1,0,1,0,2,1,1,2,1,0,0,2,0,0,1,0,2,2,2,2,1,2,0,2,2,1,
          1,1,0,0,1,0,2,2,1,2,2,1,2,0,1,0,2,2,2,1,0,2>>,
        <<0,0,1,0,0,0,2,1,0,0,1,2,1,1,0,1,1,1,1,1,1,1,1,2,0,2,1,2,2,0,2,1,0,1,0,2,2,1,1,0,1,2,2,1,
          2,1,2,2,2,0,0,2,2,2,2,1,2,0,0,0,1,1,2,2,1,1,0,2,0,0,2,2,0,2,1,2,0,2,0,1,2,1,1,2,1,0,0,0,
          1,0,1,0,0,0,1,1,1,0,2,0,2,1,2,2,0,0,0,2,0,1,2,1,2,1,0,0,1,1,1,1,2,2,1,0,0,0,1,0,0,1,0,2,
          2,0,0,1,0,1,2,2,2,2,0,2,0,0,0,0,1,0,0,2,1,2>>,
        <<0,0,0,1,0,0,2,2,1,2,2,2,0,0,2,2,2,2,0,2,2,0,1,2,1,2,2,1,2,0,2,0,1,0,1,2,0,2,1,1,1,2,2,1,
          1,1,1,2,1,1,1,1,2,0,0,1,0,2,2,1,1,0,0,0,1,0,0,1,2,2,1,2,1,0,1,1,0,1,2,2,1,1,0,2,0,2,0,2,
          2,0,0,2,2,2,0,0,0,0,2,1,1,0,1,0,1,0,2,1,2,0,0,1,0,2,2,2,1,2,0,2,0,0,0,2,1,1,2,0,1,1,2,0,
          0,0,2,1,1,0,0,2,1,0,0,0,1,1,0,0,1,2,1,0,2,0>>,
        <<0,0,0,0,1,0,2,1,2,0,1,0,0,2,0,1,0,0,1,1,0,2,0,2,1,0,2,2,0,0,2,0,0,1,0,2,0,0,2,1,2,2,1,1,
          1,0,1,1,1,1,2,2,1,0,1,2,1,0,1,0,2,0,2,2,2,0,2,1,1,1,1,1,1,1,2,1,2,1,1,1,2,0,0,1,2,1,2,2,
          1,1,0,2,1,1,2,2,2,2,0,1,2,2,0,2,2,0,2,0,1,2,2,2,2,0,0,1,0,2,1,0,1,1,1,1,0,2,0,1,1,2,2,2,
          1,0,2,0,1,1,2,0,1,2,1,0,2,2,1,1,1,2,0,1,0,1>>,
        <<0,0,0,0,0,1,2,0,1,1,2,2,1,2,1,2,2,1,2,2,2,0,2,1,1,0,0,2,2,1,2,0,0,0,1,2,0,0,0,2,2,0,1,0,
          1,0,0,1,0,2,2,0,2,2,1,0,0,1,2,2,1,1,2,1,1,1,2,0,1,0,0,1,0,1,0,2,2,0,1,0,1,1,2,1,2,0,1,1,
          1,0,1,1,1,0,1,1,1,1,1,2,2,0,2,1,1,1,2,0,0,1,1,1,0,2,1,2,2,1,1,1,2,2,2,2,2,1,1,2,2,2,0,2,
          0,1,2,0,0,1,0,2,2,2,0,1,2,0,2,2,2,2,0,0,1,2>>>>],
    \* line 197
    [n |-> 198, k |-> 10, w1 |-> 96, w2 |-> 112, K |-> 2,
     M |-> <<
        <<1,0,0,0,0,0,0,0,0,0,1,1,1,1,1,1,1,0,1,0,1,0,0,0,0,1,0,0,0,1,1,0,0,1,1,1,1,1,0,1,1,0,1,0,
          1,0,0,1,0,0,1,0,0,1,1,1,1,0,0,0,1,1,0,1,1,1,1,0,0,1,1,0,1,1,0,0,1,1,1,0,0,0,1,1,1,1,0,1,
          0,1,0,1,0,1,1,1,0,0,1,1,1,1,1,1,0,0,1,0,1,0,0,1,1,1,1,0,1,0,0,1,0,0,1,1,0,0,1,1,1,1,0,1,
          0,1,1,1,1,0,1,1,1,1,0,0,1,0,1,1,0,1,1,1,0,1,0,0,1,1,1,1,0,0,0,1,1,1,1,1,0,1,1,0,1,1,1,0,
          0,1,1,1,1,1,0,0,1,0,1,0,0,1,1,0,1,1,0,0,0,0>>,
        <<0,1,0,0,0,0,0,0,0,0,0,1,0,1,1,0,0,1,1,1,0,0,1,0,0,0,1,0,1,0,1,0,1,0,1,0,1,1,1,1,0,1,1,0,
          1,0,0,0,1,0,0,1,0,1,0,1,1,0,0,1,1,0,1,0,1,0,1,0,1,1,0,1,1,1,0,1,0,0,0,1,1,0,0,0,0,0,0,1,
          1,0,1,1,0,1,0,1,0,1,1,0,1,0,1,1,0,1,1,1,1,1,0,1,0,1,0,0,0,0,0,0,0,1,1,0,1,1,0,0,1,1,0,0,
          0,1,0,1,1,1,1,1,0,0,0,1,0,0,1,0,1,1,0,1,1,1,0,0,1,1,1,1,0,0,1,0,0,0,0,0,1,1,0,0,0,1,0,1,
          1,0,0,1,1,1,0,1,1,0,0,1,1,1,0,1,0,1,1,0,0,0>>,
        <<0,0,1,0,0,0,0,0,0,0,0,1,1,1,0,0,1,1,1,1,1,0,1,1,1,0,1,1,0,0,0,0,1,1,0,1,0,1,0,0,1,0,0,0,
          1,1,1,1,0,0,0,0,0,0,1,1,0,0,0,1,1,0,1,1,1,0,1,1,1,1,0,0,1,0,1,0,0,0,1,1,0,0,1,1,0,1,1,0,
          0,0,0,0,0,1,1,1,1,0,0,0,1,1,0,0,0,0,0,0,1,0,1,0,1,1,0,1,0,1,1,1,1,1,0,1,0,1,0,0,0,1,1,1,
          1,1,0,0,1,0,0,1,1,0,1,1,1,0,1,1,1,0,0,0,0,0,1,0,1,1,0,1,0,0,0,0,0,0,1,1,1,0,0,0,1,0,0,1,
          1,1,1,1,1,0,0,1,0,0,1,1,1,1,0,1,0,1,0,0,1,0>>,
        <<0,0,0,1,0,0,0,0,0,0,0,0,1,1,1,1,1,0,0,0,1,0,0,0,0,0,0,0,1,0,0,1,0,1,0,1,0,0,0,1,1,1,0,1,
          1,1,1,0,0,0,1,0,0,1,0,0,1,0,0,1,0,1,1,1,0,0,0,1,0,0,1,0,1,1,0,0,0,1,0,0,0,1,0,0,1,1,1,0,
          1,1,1,1,0,1,1,1,0,1,0,0,1,0,0,1,0,1,0,1,1,0,1,1,0,0,1,1,0,0,1,1,0,1,0,0,1,1,1,0,1,1,0,0,
          1,1,0,1,0,0,1,0,0,0,1,1,0,1,1,1,0,1,1,0,0,0,0,0,1,1,0,0,1,1,1,1,0,0,1,1,1,1,1,0,0,0,0,0,
          0,0,1,0,1,1,0,1,0,1,0,1,1,1,1,1,1,0,1,1,1,1>>,
        <<0,0,0,0,1,0,0,0,0,0,1,1,0,0,1,0,0,1,0,0,0,0,0,1,0,1,1,0,0,0,0,1,1,1,0,1,0,0,1,1,0,1,0,1,
          0,1,0,0,0,0,1,0,1,1,0,1,0,0,1,0,1,0,1,0,0,1,1,0,1,1,0,0,0,0,1,1,0,0,1,1,0,0,0,0,1,1,1,0,
          0,1,1,0,1,1,1,1,0,0,0,1,1,1,1,0,1,0,0,0,0,1,0,0,0,0,1,1,1,1,0,1,1,0,1,1,0,0,1,1,1,1,0,0,
          0,0,1,0,1,1,0,1,0,0,1,0,1,1,1,0,1,1,1,0,0,1,0,1,1,0,1,0,0,1,1,1,1,0,0,0,1,0,0,0,1,1,0,0,
          0,0,1,0,1,1,0,1,1,1,1,1,1,1,1,1,0,1,1,1,0,0>>,
        <<0,0,0,0,0,1,0,0,0,0,1,1,0,1,0,0,1,1,1,0,0,1,1,1,1,0,1,1,0,1,0,0,0,0,1,0,1,1,1,0,0,0,1,0,
          1,1,1,0,0,0,1,0,0,1,0,0,1,0,0,1,0,1,1,1,1,0,0,1,0,1,0,1,1,0,0,1,0,1,1,0,1,1,1,0,0,1,1,0,
          1,0,1,1,1,0,1,0,0,0,0,1,0,1,1,0,1,0,1,0,1,1,0,0,1,0,1,0,0,0,1,1,0,0,0,1,0,1,1,1,1,1,0,0,
          1,0,0,0,0,1,1,1,0,1,1,1,0,0,1,0,0,1,0,0,1,0,0,1,0,0,1,1,0,0,0,0,1,1,0,1,1,1,0,1,1,0,0,0,
          0,1,1,0,1,0,1,0,1,0,0,1,1,0,1,0,1,0,1,1,0,1>>,
        <<0,0,0,0,0,0,1,0,0,0,0,1,1,0,1,1,1,1,0,0,1,0,1,1,0,1,0,0,0,1,0,0,1,0,0,0,1,1,0,0,0,0,0,0,
          1,1,0,0,1,0,0,0,0,1,1,1,0,1,0,0,0,1,1,0,0,0,1,1,0,1,0,0,1,0,0,0,1,1,0,1,1,0,0,1,0,1,0,1,
          0,1,1,0,1,1,0,0,1,1,1,1,0,1,1,1,1,1,1,1,0,1,0,0,1,1,1,1,1,0,1,0,1,0,0,1,1,0,0,1,1,0,0,1,
          1,1,0,0,0,1,0,0,1,0,0,0,0,0,1,1,1,0,0,0,0,1,1,0,1,1,1,0,1,1,0,1,0,0,0,0,0,1,1,1,0,1,0,0,
          1,1,1,0,1,1,1,0,0,1,0,1,1,0,1,1,0,0,1,0,1,1>>,
        <<0,0,0,0,0,0,0,1,0,0,1,1,1,0,0,1,1,0,1,0,1,1,1,1,0,0,1,0,1,1,1,1,0,0,1,0,0,0,0,1,0,1,0,1,
          0,0,1,0,0,1,1,0,0,0,1,1,0,0,1,0,0,1,1,0,0,1,0,1,0,1,1,1,1,0,0,1,1,0,0,1,0,1,1,0,1,0,0,1,
          0,0,0,1,0,1,0,1,1,0,0,0,1,0,0,0,1,0,0,1,1,1,1,1,0,1,0,1,1,1,0,1,0,0,1,0,0,1,0,1,0,1,1,1,
          0,1,0,0,1,1,0,1,1,1,0,1,0,1,0,0,1,1,0,1,0,0,0,0,1,0,1,0,1,0,0,1,1,0,0,1,0,1,0,1,1,0,0,1,
          1,1,1,0,0,1,0,0,0,0,0,1,1,0,1,1,1,1,1,0,0,1>>,
        <<0,0,0,0,0,0,0,0,1,0,1,0,1,0,1,1,0,1,0,1,0,1,0,1,0,1,0,1,0,1,1,1,0,0,1,1,1,1,0,1,1,1,1,1,
          1,0,1,0,0,0,1,1,0,1,1,0,0,1,0,0,1,0,1,0,1,1,1,1,0,1,1,0,0,1,1,1,0,1,0,1,1,0,1,0,0,1,0,1,
          1,0,0,1,1,0,1,0,1,1,0,0,0,0,0,0,0,0,0,1,1,0,0,0,1,1,1,1,0,1,1,0,0,1,0,1,0,1,1,0,0,0,0,1,
          0,0,0,0,0,0,0,1,0,1,0,0,0,0,1,1,0,1,1,1,1,0,1,1,1,1,1,0,0,0,1,1,0,0,0,1,1,0,0,1,0,1,1,0,
          1,0,1,0,0,0,0,0,0,1,1,1,0,1,0,1,0,1,1,1,0,0>>,
        <<0,0,0,0,0,0,0,0,0,1,1,0,1,1,0,0,1,1,1,1,0,1,0,1,1,0,0,0,0,1,0,0,0,0,0,0,0,0,1,1,0,1,0,1,
          0,0,0,0,0,1,1,0,1,0,1,0,1,0,0,1,1,0,1,0,1,0,0,1,1,1,1,0,0,0,0,1,0,0,0,0,1,1,0,1,0,0,1,1,
          0,1,1,1,0,1,1,1,0,1,1,1,0,1,1,1,0,1,1,1,0,1,1,1,1,0,1,0,1,1,0,0,1,0,0,1,0,0,1,1,0,1,1,0,
          0,1,1,1,0,0,0,0,1,0,0,1,0,0,0,0,0,1,0,1,0,0,1,1,0,1,0,0,1,0,0,1,0,1,1,1,1,1,0,0,1,1,1,0,
          1,0,1,1,1,0,1,0,0,1,1,0,1,1,0,1,0,1,1,0,1,0>>>>],
    \* line 225
    [n |-> 219, k |-> 9, w1 |-> 96, w2 |-> 112, K |-> 2,
     M |-> <<
        <<1,0,1,0,0,0,1,1,0,0,1,1,1,0,1,0,0,0,1,0,1,0,0,0,1,0,0,1,0,0,0,0,1,0,0,1,0,0,0,0,1,0,1,1,
          1,1,0,0,1,0,0,0,1,0,1,0,0,1,1,0,0,0,0,0,0,0,0,1,1,0,1,0,1,1,1,1,0,0,1,1,0,0,1,0,0,1,0,0,
          0,0,1,0,0,1,1,1,1,0,1,1,1,0,1,1,1,1,1,0,0,0,1,0,0,1,0,1,0,1,1,0,1,1,0,1,1,0,1,1,1,0,0,1,
          1,0,0,1,1,1,1,0,0,0,1,1,0,1,1,1,0,1,0,0,0,0,0,0,1,1,0,1,0,1,1,1,0,0,0,1,0,1,0,1,0,0,0,1,
          1,1,1,0,0,1,1,1,1,1,1,1,1,1,1,0,1,1,1,0,1,0,1,0,0,1,0,1,0,1,1,0,0,0,1,0,1,1,1,1,1,1,1>>,
        <<0,1,1,0,0,0,1,0,1,1,0,1,0,1,1,1,0,1,0,0,0,0,1,0,0,0,0,1,0,1,1,0,0,0,1,0,1,0,0,1,0,0,1,0,
          0,1,1,0,0,0,1,1,1,1,0,1,1,1,1,0,0,1,0,1,1,1,0,1,0,0,0,0,1,1,1,0,1,0,1,1,1,0,0,1,1,1,1,1,
          1,1,1,0,0,0,1,1,0,0,0,0,0,1,1,1,0,1,0,1,1,0,1,0,0,1,0,0,0,1,1,0,0,0,1,1,1,1,0,1,1,0,0,1,
          1,0,0,1,0,1,0,1,1,1,1,0,1,0,1,0,1,1,1,1,0,0,1,0,0,0,1,1,0,1,0,1,1,1,1,0,0,0,0,1,0,0,0,0,
          0,1,0,1,1,0,1,1,0,0,0,1,0,1,1,0,1,0,0,0,0,1,1,1,1,0,0,1,1,0,0,1,1,0,0,1,1,0,0,1,1,1,1>>,
        <<0,0,0,1,0,0,1,0,0,0,1,0,0,1,0,1,1,0,1,1,0,0,1,1,1,0,0,1,1,1,0,1,1,1,1,1,1,0,0,0,0,0,0,0,
          1,0,1,1,1,0,1,0,1,0,0,0,1,1,0,1,1,0,0,1,1,0,0,1,1,1,0,1,0,1,0,1,1,0,1,1,1,0,1,0,1,1,0,1,
          1,0,1,1,0,0,0,0,1,0,0,1,0,0,1,1,1,1,1,1,1,1,0,1,1,0,1,0,0,1,1,1,1,1,1,0,0,0,0,0,0,1,1,0,
          0,1,1,1,0,1,1,0,1,0,0,0,0,0,0,0,0,1,0,1,0,0,0,0,0,0,0,0,1,1,0,0,0,1,1,1,1,1,1,1,0,0,1,0,
          1,1,0,0,0,0,1,1,1,0,0,1,1,1,1,0,0,0,1,1,1,0,0,1,1,1,1,0,1,1,0,1,0,0,1,1,1,1,0,0,0,0,1>>,
        <<0,0,0,0,1,0,0,0,1,0,0,0,1,0,1,0,1,1,1,0,1,0,1,1,1,0,0,1,1,1,0,0,0,1,0,1,0,1,1,1,0,0,1,1,
          0,1,0,1,1,0,0,0,0,0,0,1,1,1,1,1,1,1,1,0,0,1,1,1,0,1,0,0,0,0,1,0,1,1,1,0,0,0,1,0,1,0,1,0,
          0,1,0,0,0,0,0,0,0,1,0,1,1,0,1,0,1,1,1,1,0,0,1,0,0,1,0,0,0,0,0,0,0,1,1,0,0,0,0,1,1,0,0,1,
          1,0,0,1,0,0,1,0,0,1,1,1,0,1,0,0,0,0,0,0,0,0,0,1,0,1,0,1,1,1,0,0,1,0,0,1,1,0,0,1,0,0,1,0,
          1,0,1,1,1,1,0,0,0,1,1,0,0,1,1,0,0,0,1,0,0,0,0,0,0,1,1,1,0,0,1,1,0,0,1,0,0,1,0,0,1,1,1>>,
        <<0,0,0,0,0,1,0,1,0,1,0,1,0,0,0,1,0,1,0,1,1,0,1,1,1,0,0,1,1,1,0,1,0,0,1,0,0,0,1,0,1,1,1,0,
          0,0,0,0,0,0,0,0,0,1,1,1,1,0,1,1,0,0,0,1,1,0,0,0,0,0,0,0,0,1,1,1,0,1,0,0,0,0,0,0,0,1,0,1,
          1,0,1,0,1,0,1,0,0,1,1,1,1,1,1,0,1,1,0,0,0,1,0,1,1,0,1,1,1,1,0,0,1,1,1,0,0,0,0,0,0,1,1,0,
          0,1,1,1,1,0,1,1,0,1,0,1,1,0,1,1,1,0,0,0,0,0,0,1,1,1,1,1,0,0,0,0,1,0,1,0,0,0,1,1,0,0,1,0,
          1,1,0,0,0,0,1,1,1,0,0,1,1,1,1,0,0,0,1,1,0,1,1,0,1,0,0,0,0,0,0,0,0,0,0,0,0,1,0,0,0,0,1>>,
        <<0,0,0,0,0,0,0,0,0,0,0,0,0,0,0,0,0,0,0,0,0,1,0,0,0,0,0,1,1,1,0,1,0,1,1,1,0,0,1,0,0,0,1,0,
          0,0,0,1,1,0,1,1,0,1,0,0,1,0,1,0,1,1,0,0,1,0,1,1,0,0,1,1,0,0,0,0,0,0,0,1,0,1,1,0,0,0,1,0,
          1,0,1,0,1,0,0,1,1,1,0,0,0,1,1,1,1,0,1,0,0,1,1,1,0,0,0,1,1,0,1,1,0,1,1,0,1,1,1,1,1,1,0,0,
          0,1,0,0,1,1,1,0,0,0,1,0,1,1,1,1,0,1,0,0,1,0,1,1,0,0,1,0,0,1,1,0,1,1,0,0,0,1,0,0,1,1,0,1,
          0,0,0,1,0,1,1,0,1,0,1,1,0,0,0,1,1,1,0,1,0,0,0,0,1,0,0,1,1,1,1,1,1,0,0,1,0,1,0,0,1,0,0>>,
        <<0,0,0,0,0,0,0,0,0,0,0,0,0,0,0,0,0,0,0,0,0,0,0,0,0,1,0,1,1,0,1,0,1,1,0,1,1,0,1,0,1,1,1,1,
          0,1,0,1,1,0,1,0,1,0,0,1,0,0,1,0,0,1,0,0,0,1,0,1,0,1,0,0,0,0,0,0,0,0,0,0,0,0,1,0,1,1,0,0,
          0,0,1,1,0,0,0,0,1,0,1,0,0,1,0,0,1,1,0,0,0,0,0,1,1,0,0,0,0,1,1,1,1,0,1,1,0,0,0,1,0,0,0,0,
          1,1,1,1,1,1,1,1,1,1,0,1,1,0,1,0,0,1,0,1,0,1,1,0,0,0,0,1,1,1,1,1,1,1,0,1,1,1,0,1,0,1,0,1,
          1,0,1,0,0,1,0,0,1,0,0,0,1,0,1,1,1,0,1,1,1,0,0,1,1,1,1,1,0,0,1,1,0,0,1,0,0,1,0,1,1,1,0>>,
        <<0,0,0,0,0,0,0,0,0,0,0,0,0,0,0,0,0,0,0,0,0,0,0,0,0,0,1,1,0,1,1,1,1,0,1,0,1,1,1,1,0,0,1,0,
          1,0,1,1,1,0,0,0,0,1,1,0,0,1,0,0,1,0,1,0,0,0,1,0,0,0,1,0,1,0,0,0,0,0,0,0,0,1,0,1,0,0,0,1,
          1,0,0,0,1,0,1,0,0,0,0,1,0,0,1,1,0,0,0,0,1,1,0,0,0,0,1,1,1,1,0,0,1,1,0,1,0,0,0,0,1,0,0,1,
          0,1,1,1,1,1,1,1,1,1,1,1,0,1,0,1,1,0,0,0,0,0,0,1,0,1,0,1,1,1,1,1,1,1,1,0,0,1,1,1,1,0,1,1,
          0,0,0,1,1,0,0,1,0,0,0,1,0,1,0,1,0,1,1,1,0,1,1,0,1,1,1,0,1,1,0,0,1,1,0,0,0,1,1,0,1,1,0>>,
        <<0,0,0,0,0,0,0,0,0,0,0,0,0,0,0,0,0,0,0,0,0,0,0,0,0,0,0,0,0,0,0,0,0,0,0,0,0,0,0,0,0,0,0,0,
          0,0,0,0,0,1,1,1,1,1,1,1,1,1,1,1,1,1,1,1,1,1,1,1,1,1,1,1,1,0,0,0,0,0,0,1,1,1,1,1,1,1,1,1,
          1,1,1,1,1,1,1,1,1,1,1,1,1,1,1,1,1,1,1,1,1,1,1,1,1,1,1,0,0,0,0,0,0,0,0,0,0,0,0,1,1,1,1,1,
          1,1,1,1,1,1,1,1,1,0,0,0,0,0,0,1,1,1,1,1,1,1,1,1,1,1,1,1,1,1,1,1,1,0,0,0,0,0,0,0,0,0,0,0,
          0,1,1,1,1,1,1,1,1,1,1,1,1,0,0,0,0,0,0,0,0,0,0,0,0,0,0,0,0,0,0,1,1,1,1,1,1,0,0,0,1,1,0>>>>],
    \* line 251
    [n |-> 73, k |-> 9, w1 |-> 32, w2 |-> 40, K |-> 2,
     M |-> <<
        <<1,0,1,0,0,1,0,1,0,0,0,0,0,0,1,0,1,0,0,0,0,0,1,0,1,0,1,0,0,0,1,1,0,0,1,1,0,1,0,1,1,0,1,1,
          0,1,0,0,0,0,1,0,1,1,0,0,1,0,1,0,0,1,0,0,1,1,1,0,1,1,1,0,1>>,
        <<0,1,1,0,0,0,0,1,1,0,0,0,0,1,0,1,1,0,1,1,1,1,0,0,1,1,0,1,0,0,0,1,0,0,1,1,1,1,1,1,1,0,1,0,
          1,1,0,1,1,1,0,1,1,1,0,0,1,0,1,1,0,0,0,1,1,0,0,1,1,1,1,0,0>>,
        <<0,0,0,1,0,1,0,0,0,0,0,0,0,0,0,1,1,1,1,1,1,1,0,1,1,0,1,0,1,0,0,1,0,1,0,0,1,1,1,1,0,1,1,0,
          1,0,1,0,1,1,0,0,0,0,1,0,1,0,0,0,0,0,0,1,1,1,0,1,0,0,0,0,1>>,
        <<0,0,0,0,1,0,0,1,0,0,0,0,0,0,0,1,1,1,1,1,1,1,1,0,0,1,1,1,0,0,0,0,1,1,1,1,0,0,1,1,1,1,0,1,
          0,1,0,0,0,0,0,1,0,1,0,1,1,0,0,0,0,0,0,1,0,1,1,0,1,0,0,0,1>>,
        <<0,0,0,0,0,0,1,0,1,0,0,0,0,0,0,1,1,1,1,1,1,0,1,1,1,1,0,0,0,1,1,0,0,0,1,1,1,1,0,0,1,0,1,1,
          1,0,0,1,0,0,1,0,1,0,1,1,0,0,0,0,0,0,0,1,1,0,1,0,0,1,0,0,1>>,
        <<0,0,0,0,0,0,0,0,0,1,0,0,0,1,1,1,0,0,1,0,1,0,1,1,0,0,1,0,0,1,1,0,0,1,1,0,1,0,0,1,0,1,1,0,
          1,0,1,1,0,1,1,0,0,1,1,0,0,1,0,1,0,1,1,1,1,0,0,0,1,0,0,1,0>>,
        <<0,0,0,0,0,0,0,0,0,0,1,0,0,1,0,0,0,1,1,0,0,0,1,0,0,1,0,0,1,1,1,1,0,0,0,0,1,1,0,0,1,0,1,1,
          1,1,0,1,0,0,0,1,0,1,1,0,1,1,1,1,1,0,0,0,1,1,0,0,1,1,1,1,0>>,
        <<0,0,0,0,0,0,0,0,0,0,0,1,0,1,1,1,0,0,1,1,0,0,1,0,1,0,1,1,1,1,1,1,1,0,1,0,1,0,1,0,0,0,0,0,
          0,0,0,0,0,1,0,0,1,1,1,1,1,0,0,0,0,0,0,1,1,1,1,1,1,1,1,0,0>>,
        <<0,0,0,0,0,0,0,0,0,0,0,0,1,0,1,1,1,0,0,0,0,1,0,0,0,0,1,1,0,1,1,0,1,0,1,1,0,0,0,1,1,1,0,1,
          0,1,1,0,1,1,0,0,0,0,1,1,0,0,1,0,1,1,1,0,1,0,1,1,1,0,1,1,0>>>>],
    \* line 268
    [n |-> 70, k |-> 9, w1 |-> 32, w2 |-> 40, K |-> 2,
     M |-> <<
        <<0,1,0,0,0,1,1,1,1,0,1,1,1,0,0,0,0,0,1,0,1,1,0,1,0,1,1,0,1,1,0,1,1,1,1,0,0,0,1,0,0,0,1,0,
          0,0,0,0,1,0,0,0,0,0,1,0,0,1,0,1,0,1,1,0,1,0,1,1,0,1>>,
        <<1,0,0,0,1,1,1,1,0,1,1,1,0,0,0,0,0,0,0,1,1,0,1,0,1,1,1,1,1,0,1,1,1,1,0,0,0,1,0,0,0,1,0,0,
          0,0,0,1,0,0,0,0,0,0,0,0,1,0,1,0,1,1,1,1,0,0,1,0,1,1>>,
        <<0,0,0,1,1,1,1,0,1,1,1,0,0,0,0,0,0,1,1,1,0,1,0,1,1,1,0,1,0,1,1,1,1,0,0,1,1,0,0,0,1,0,0,0,
          0,0,1,0,0,0,0,0,0,0,0,1,0,1,0,1,1,1,0,0,0,1,0,1,1,1>>,
        <<0,0,1,1,1,1,0,1,0,1,0,0,0,0,0,0,1,1,1,0,1,0,1,1,1,0,1,0,1,1,1,1,0,0,1,1,0,0,0,1,0,0,0,0,
          1,1,0,0,0,0,0,0,0,0,1,0,1,0,1,1,1,0,0,0,1,0,1,1,0,1>>,
        <<0,1,1,1,1,0,1,0,0,0,0,0,0,0,0,1,1,1,0,1,0,1,1,1,0,1,1,1,1,1,1,0,0,1,1,0,0,0,1,0,0,0,0,1,
          0,0,0,0,0,0,0,0,0,1,0,1,0,1,1,1,0,0,1,1,0,0,1,0,1,1>>,
        <<1,1,1,1,0,1,0,0,0,0,0,0,0,0,1,1,1,0,1,0,1,1,1,0,1,1,0,1,1,1,0,0,1,1,0,1,0,1,0,0,0,0,1,0,
          0,0,0,0,0,0,0,0,1,0,1,0,1,1,1,0,0,1,0,0,0,1,0,1,1,1>>,
        <<1,1,1,0,1,0,0,0,1,0,0,0,0,1,1,1,0,0,0,1,1,1,0,1,1,0,1,1,1,0,0,1,1,0,1,1,1,0,0,0,0,1,0,0,
          0,0,0,0,0,0,0,1,0,0,0,1,1,1,0,0,1,0,1,0,1,0,1,1,0,1>>,
        <<1,1,0,1,0,0,0,1,1,0,0,0,1,1,1,0,0,0,1,1,1,0,1,1,0,1,0,1,0,0,1,1,0,1,1,1,0,0,0,0,1,0,0,0,
          1,0,0,0,0,0,1,0,0,0,1,1,1,0,0,1,0,1,0,1,0,0,1,0,1,1>>,
        <<1,0,1,0,0,0,1,1,1,0,0,1,1,1,0,0,0,0,1,1,0,1,1,0,1,0,1,0,0,1,1,0,1,1,1,1,0,0,0,1,0,0,0,1,
          0,0,0,0,0,1,0,0,0,0,1,1,0,0,1,0,1,0,1,0,0,1,0,1,1,1>>>>],
    \* line 285
    [n |-> 85, k |-> 8, w1 |-> 40, w2 |-> 48, K |-> 2,
     M |-> <<
        <<1,0,0,0,0,0,0,0,1,0,0,1,1,1,0,1,0,1,0,0,0,1,0,0,0,0,1,1,1,0,0,1,1,1,0,0,0,1,1,1,1,1,1,0,
          1,0,1,1,0,0,0,1,1,0,1,1,0,1,0,0,0,1,1,0,0,1,0,0,1,1,0,0,1,1,0,1,0,1,1,1,0,0,0,0,1>>,
        <<0,1,0,0,0,0,0,0,1,1,0,1,0,0,1,1,1,1,1,0,0,1,1,0,0,0,1,0,0,1,0,1,0,0,1,0,0,1,0,0,0,0,0,1,
          1,1,1,0,1,0,0,1,0,1,1,0,1,1,1,0,0,1,0,1,0,1,1,0,1,0,1,0,1,0,1,1,1,1,0,0,1,0,0,0,1>>,
        <<0,0,1,0,0,0,0,0,1,1,1,1,0,1,0,0,1,0,1,1,0,1,1,1,0,0,1,0,1,0,1,1,0,1,0,1,0,1,0,1,1,1,1,0,
          0,1,0,0,0,1,0,1,0,0,0,0,0,0,1,1,0,1,0,0,1,1,1,1,1,0,0,1,1,0,0,0,1,0,0,1,0,1,0,0,1>>,
        <<0,0,0,1,0,0,0,0,1,1,1,0,0,1,1,1,0,0,0,1,1,1,1,1,1,0,1,0,1,1,0,0,0,1,1,0,1,1,0,1,0,0,0,1,
          1,0,0,1,0,0,1,1,0,0,1,1,0,1,0,1,1,1,0,0,0,0,1,1,0,0,0,0,0,0,0,1,0,0,1,1,1,0,1,0,1>>,
        <<0,0,0,0,1,0,0,0,1,1,1,0,1,1,1,0,1,1,0,0,1,0,1,1,1,1,1,0,1,1,1,1,1,1,1,1,0,0,0,1,0,1,1,0,
          0,1,1,1,1,0,0,0,0,0,1,0,1,1,1,0,1,0,0,0,0,1,0,1,0,1,0,0,1,1,0,1,1,1,1,0,1,1,0,1,1>>,
        <<0,0,0,0,0,1,0,0,1,1,1,0,1,0,1,0,0,0,1,0,0,0,0,1,1,1,0,0,1,1,1,0,0,0,1,1,1,1,1,1,0,1,0,1,
          1,0,0,0,1,1,0,1,1,0,1,0,0,0,1,1,0,0,1,0,0,1,1,0,0,1,1,0,1,0,1,1,1,0,0,0,0,1,1,0,0>>,
        <<0,0,0,0,0,0,1,0,0,1,1,1,0,1,0,1,0,0,0,1,0,0,0,0,1,1,1,0,0,1,1,1,0,0,0,1,1,1,1,1,1,0,1,0,
          1,1,0,0,0,1,1,0,1,1,0,1,0,0,0,1,1,0,0,1,0,0,1,1,0,0,1,1,0,1,0,1,1,1,0,0,0,0,1,1,0>>,
        <<0,0,0,0,0,0,0,1,0,0,1,1,1,0,1,0,1,0,0,0,1,0,0,0,0,1,1,1,0,0,1,1,1,0,0,0,1,1,1,1,1,1,0,1,
          0,1,1,0,0,0,1,1,0,1,1,0,1,0,0,0,1,1,0,0,1,0,0,1,1,0,0,1,1,0,1,0,1,1,1,0,0,0,0,1,1>>>>],
    \* line 301
    [n |-> 15, k |-> 4, w1 |-> 9, w2 |-> 12, K |-> 3,
     M |-> <<
        <<1,0,0,0,2,2,0,2,1,0,0,1,1,1,1>>,
        <<0,1,0,0,1,1,2,1,1,1,2,2,0,0,0>>,
        <<0,0,1,0,2,1,1,1,2,1,0,0,0,1,1>>,
        <<0,0,0,1,1,0,1,2,0,2,2,2,2,2,0>>>>],
    \* line 313
    [n |-> 34, k |-> 4, w1 |-> 24, w2 |-> 28, K |-> 4,
     M |-> <<
        <<1,0,0,0,1,2,2,3,1,0,2,2,0,1,3,2,2,3,3,3,2,2,3,3,3,1,3,2,1,0,1,2,3,1>>,
        <<0,1,0,0,2,2,1,3,1,1,3,1,2,2,0,0,1,0,2,2,0,1,3,2,2,1,0,0,0,1,2,2,3,1>>,
        <<0,0,1,0,1,0,0,2,2,1,3,1,1,3,1,2,2,2,3,1,0,2,2,0,1,3,2,2,1,0,0,0,1,2>>,
        <<0,0,0,1,2,2,3,1,0,2,2,0,1,3,2,2,1,3,3,2,2,3,3,3,1,3,2,1,0,1,2,3,1,3>>>>],
    \* line 325
    [n |-> 121, k |-> 5, w1 |-> 88, w2 |-> 96, K |-> 4,
     M |-> <<
        <<1,1,3,1,2,2,3,0,2,0,1,0,1,0,1,0,3,1,3,0,2,0,3,2,3,0,2,0,2,0,3,0,1,1,2,0,2,1,3,1,2,2,3,0,
          3,1,2,0,3,1,3,2,3,0,3,0,2,0,3,1,3,0,1,1,2,0,1,1,2,0,1,1,2,0,1,1,3,0,3,1,3,0,3,0,3,0,3,0,
          2,2,3,1,2,1,3,0,2,2,3,0,3,0,1,0,2,2,3,1,2,0,1,0,3,0,2,1,2,1,2,2,3>>,
        <<0,1,1,0,0,1,1,0,0,1,1,2,2,0,0,1,1,2,2,3,3,0,0,1,1,3,3,1,1,2,2,3,3,0,0,3,3,0,0,2,2,3,3,1,
          1,3,3,1,1,2,2,0,0,1,1,2,2,3,3,0,0,2,2,3,3,0,0,2,2,3,3,0,0,1,1,3,3,0,0,1,1,2,2,0,0,2,2,3,
          3,0,0,1,1,2,2,1,1,2,2,3,3,0,0,2,2,3,3,0,0,1,1,2,2,3,3,0,0,2,2,3,3>>,
        <<0,0,0,1,1,1,1,0,0,0,0,0,0,1,1,1,1,1,1,1,1,2,2,2,2,2,2,3,3,3,3,3,3,0,0,0,0,1,1,1,1,1,1,2,
          2,2,2,3,3,3,3,0,0,0,0,0,0,0,0,1,1,1,1,1,1,2,2,2,2,2,2,3,3,3,3,3,3,0,0,0,0,0,0,1,1,1,1,1,
          1,2,2,2,2,2,2,0,0,0,0,0,0,1,1,1,1,1,1,2,2,2,2,2,2,2,2,3,3,3,3,3,3>>,
        <<0,0,0,0,0,0,0,1,1,1,1,1,1,1,1,1,1,1,1,1,1,1,1,1,1,1,1,1,1,1,1,1,1,0,0,0,0,0,0,0,0,0,0,0,
          0,0,0,0,0,0,0,1,1,1,1,1,1,1,1,1,1,1,1,1,1,1,1,1,1,1,1,1,1,1,1,1,1,2,2,2,2,2,2,2,2,2,2,2,
          2,2,2,2,2,2,2,3,3,3,3,3,3,3,3,3,3,3,3,3,3,3,3,3,3,3,3,3,3,3,3,3,3>>,
        <<0,0,0,0,0,0,0,0,0,0,0,0,0,0,0,0,0,0,0,0,0,0,0,0,0,0,0,0,0,0,0,0,0,1,1,1,1,1,1,1,1,1,1,1,
          1,1,1,1,1,1,1,1,1,1,1,1,1,1,1,1,1,1,1,1,1,1,1,1,1,1,1,1,1,1,1,1,1,1,1,1,1,1,1,1,1,1,1,1,
          1,1,1,1,1,1,1,1,1,1,1,1,1,1,1,1,1,1,1,1,1,1,1,1,1,1,1,1,1,1,1,1,1>>>>],
    \* line 340
    [n |-> 132, k |-> 5, w1 |-> 96, w2 |-> 104, K |-> 4,
     M |-> <<
        <<2,2,3,1,2,1,2,3,0,3,1,1,3,1,2,1,0,3,0,3,1,0,1,2,3,0,0,2,3,1,3,0,1,2,3,0,1,2,3,3,2,3,2,3,
          1,0,2,1,3,0,2,0,1,0,1,2,1,2,1,2,0,1,2,3,1,3,0,1,0,1,2,3,0,1,3,2,0,0,3,3,1,3,3,1,1,1,3,1,
          1,3,1,0,1,1,3,1,2,3,0,2,3,3,1,3,0,1,2,3,2,3,0,0,2,3,2,3,0,2,2,3,0,1,0,0,1,2,3,0,2,1,1,3>>,
        <<1,0,0,1,1,3,0,0,1,1,2,3,3,0,0,1,2,2,2,2,3,0,0,0,0,1,2,3,0,1,1,2,2,2,2,3,3,3,3,1,2,2,3,3,
          0,1,1,2,2,3,3,0,0,1,2,2,3,3,0,1,2,0,0,2,3,3,0,0,1,1,1,1,3,3,3,0,1,2,2,3,0,0,1,2,3,0,0,1,
          3,3,0,1,1,2,2,0,1,1,2,2,2,3,0,0,1,1,1,1,2,2,3,0,0,2,3,3,0,0,1,1,2,2,3,0,0,0,0,1,1,2,3,3>>,
        <<0,1,1,1,1,1,0,0,0,0,0,0,0,1,1,1,1,1,2,2,2,3,3,3,3,3,3,3,0,0,0,0,0,0,0,0,0,0,0,1,1,1,1,1,
          2,2,2,2,2,2,2,3,3,3,3,3,3,3,0,0,0,1,1,1,1,1,2,2,2,2,2,2,2,2,2,3,3,3,3,3,0,0,0,0,0,1,1,1,
          1,1,2,2,2,2,2,3,3,3,3,3,3,3,0,0,0,0,0,0,0,0,0,1,1,1,1,1,2,2,2,2,2,2,2,3,3,3,3,3,3,3,3,3>>,
        <<0,0,0,0,0,0,1,1,1,1,1,1,1,1,1,1,1,1,1,1,1,1,1,1,1,1,1,1,0,0,0,0,0,0,0,0,0,0,0,0,0,0,0,0,
          0,0,0,0,0,0,0,0,0,0,0,0,0,0,1,1,1,1,1,1,1,1,1,1,1,1,1,1,1,1,1,1,1,1,1,1,2,2,2,2,2,2,2,2,
          2,2,2,2,2,2,2,2,2,2,2,2,2,2,3,3,3,3,3,3,3,3,3,3,3,3,3,3,3,3,3,3,3,3,3,3,3,3,3,3,3,3,3,3>>,
        <<0,0,0,0,0,0,0,0,0,0,0,0,0,0,0,0,0,0,0,0,0,0,0,0,0,0,0,0,1,1,1,1,1,1,1,1,1,1,1,1,1,1,1,1,
          1,1,1,1,1,1,1,1,1,1,1,1,1,1,1,1,1,1,1,1,1,1,1,1,1,1,1,1,1,1,1,1,1,1,1,1,1,1,1,1,1,1,1,1,
          1,1,1,1,1,1,1,1,1,1,1,1,1,1,1,1,1,1,1,1,1,1,1,1,1,1,1,1,1,1,1,1,1,1,1,1,1,1,1,1,1,1,1,1>>>>],
    \* line 355
    [n |-> 143, k |-> 5, w1 |-> 104, w2 |-> 112, K |-> 4,
     M |-> <<
        <<1,2,0,1,2,0,1,2,3,0,2,2,2,3,0,3,2,3,0,2,1,2,3,0,3,2,3,0,2,3,0,2,0,1,2,0,2,0,1,1,2,2,3,0,
          0,2,0,1,2,1,2,0,1,1,3,0,0,1,0,1,3,1,2,1,3,3,0,2,0,2,3,2,3,0,0,2,1,2,0,1,2,1,3,1,1,2,0,1,
          0,3,0,1,2,3,1,2,3,0,2,0,1,1,2,0,1,2,3,0,0,2,1,0,3,0,2,0,1,3,2,3,2,3,1,2,1,3,2,0,1,1,2,3,
          0,2,1,2,3,0,2,0,3,0,1>>,
        <<0,0,1,1,2,3,3,3,3,0,0,1,2,2,3,3,0,0,2,2,3,3,3,0,0,1,1,2,2,2,3,3,0,0,0,1,1,3,3,0,0,1,1,2,
          3,3,0,0,0,2,2,3,3,0,0,1,2,2,0,0,3,1,1,2,2,3,0,0,1,1,1,2,2,0,1,1,0,0,1,1,2,3,3,0,2,2,3,3,
          0,0,1,1,1,1,2,2,2,3,3,0,0,1,1,2,2,2,2,3,0,0,1,3,3,0,0,1,1,1,2,2,0,0,1,1,2,2,3,1,1,2,2,2,
          3,3,0,0,0,1,1,2,2,3,3>>,
        <<1,1,1,1,1,1,1,1,1,0,0,0,0,0,0,0,1,1,1,1,1,1,1,2,2,2,2,2,2,2,2,2,3,3,3,3,3,3,3,0,0,0,0,0,
          0,0,1,1,1,1,1,1,1,2,2,2,2,2,3,3,3,0,0,0,0,0,1,1,1,1,1,1,1,2,2,2,3,3,3,3,3,3,3,0,0,0,0,0,
          1,1,1,1,1,1,1,1,1,1,1,2,2,2,2,2,2,2,2,2,3,3,3,3,3,0,0,0,0,0,0,0,1,1,1,1,1,1,1,2,2,2,2,2,
          2,2,3,3,3,3,3,3,3,3,3>>,
        <<0,0,0,0,0,0,0,0,0,1,1,1,1,1,1,1,1,1,1,1,1,1,1,1,1,1,1,1,1,1,1,1,1,1,1,1,1,1,1,0,0,0,0,0,
          0,0,0,0,0,0,0,0,0,0,0,0,0,0,0,0,0,1,1,1,1,1,1,1,1,1,1,1,1,1,1,1,1,1,1,1,1,1,1,2,2,2,2,2,
          2,2,2,2,2,2,2,2,2,2,2,2,2,2,2,2,2,2,2,2,2,2,2,2,2,3,3,3,3,3,3,3,3,3,3,3,3,3,3,3,3,3,3,3,
          3,3,3,3,3,3,3,3,3,3,3>>,
        <<0,0,0,0,0,0,0,0,0,0,0,0,0,0,0,0,0,0,0,0,0,0,0,0,0,0,0,0,0,0,0,0,0,0,0,0,0,0,0,1,1,1,1,1,
          1,1,1,1,1,1,1,1,1,1,1,1,1,1,1,1,1,1,1,1,1,1,1,1,1,1,1,1,1,1,1,1,1,1,1,1,1,1,1,1,1,1,1,1,
          1,1,1,1,1,1,1,1,1,1,1,1,1,1,1,1,1,1,1,1,1,1,1,1,1,1,1,1,1,1,1,1,1,1,1,1,1,1,1,1,1,1,1,1,
          1,1,1,1,1,1,1,1,1,1,1>>>>],
    \* line 370
    [n |-> 168, k |-> 6, w1 |-> 108, w2 |-> 117, K |-> 3,
     M |-> <<
        <<1,0,1,2,1,2,2,1,2,1,2,2,2,0,2,0,1,2,0,1,0,1,0,2,1,2,0,1,0,1,1,1,2,0,1,2,1,2,1,0,0,1,2,0,
          1,0,1,2,1,2,0,2,2,0,1,2,2,1,1,2,0,0,1,1,2,1,2,0,1,2,0,1,2,0,1,2,0,1,0,1,0,0,2,0,0,1,2,2,
          0,1,0,0,1,2,0,1,2,0,1,2,0,1,2,0,2,1,2,0,1,2,1,1,2,2,0,1,2,0,2,1,2,0,1,2,2,1,0,2,1,1,1,0,
          2,0,0,2,1,2,1,2,1,0,1,1,2,1,1,0,0,2,0,1,2,2,2,0,0,0,0,1,2,2,2,0,1,2,0,1>>,
        <<0,1,1,1,0,0,1,2,2,0,0,1,2,0,0,1,1,1,2,2,0,0,1,1,2,2,0,0,2,0,0,1,1,2,2,2,0,0,1,2,0,0,0,2,
          2,0,0,0,2,2,0,0,1,2,2,2,0,1,2,2,0,1,1,2,2,0,0,1,1,1,0,1,1,2,2,0,1,2,0,1,2,0,0,1,2,2,2,0,
          1,0,1,2,2,2,0,0,0,1,2,0,1,1,1,2,0,1,1,2,2,2,0,1,1,2,0,0,0,1,2,0,1,2,0,0,1,2,0,0,2,0,1,2,
          2,0,1,1,2,2,0,0,1,2,2,0,0,1,2,1,2,2,0,0,0,2,0,1,2,1,2,0,0,1,2,1,1,2,1,1>>,
        <<0,0,0,0,1,1,1,1,1,0,0,0,0,1,1,1,1,1,1,1,2,0,0,0,0,0,1,1,1,2,0,0,0,0,0,0,1,1,1,1,2,2,2,2,
          2,0,0,0,0,0,1,1,1,1,1,1,2,2,2,2,0,0,0,0,0,1,1,1,1,1,2,2,2,2,2,0,0,0,1,1,1,2,2,2,2,2,2,0,
          0,1,1,1,1,1,2,2,2,2,2,0,0,0,0,0,1,1,1,1,1,1,2,2,2,2,0,0,0,0,0,1,1,1,2,2,2,2,0,0,0,1,1,1,
          1,2,2,2,2,2,0,0,0,0,0,1,1,1,1,2,2,2,0,0,0,0,1,1,1,2,2,0,0,0,0,1,1,1,2,2>>,
        <<0,0,0,0,0,0,0,0,0,1,1,1,1,1,1,1,1,1,1,1,1,0,0,0,0,0,0,0,0,0,1,1,1,1,1,1,1,1,1,1,1,1,1,1,
          1,2,2,2,2,2,2,2,2,2,2,2,2,2,2,2,0,0,0,0,0,0,0,0,0,0,0,0,0,0,0,1,1,1,1,1,1,1,1,1,1,1,1,2,
          2,2,2,2,2,2,2,2,2,2,2,0,0,0,0,0,0,0,0,0,0,0,0,0,0,0,1,1,1,1,1,1,1,1,1,1,1,1,2,2,2,2,2,2,
          2,2,2,2,2,2,0,0,0,0,0,0,0,0,0,0,0,0,1,1,1,1,1,1,1,1,1,2,2,2,2,2,2,2,2,2>>,
        <<0,0,0,0,0,0,0,0,0,0,0,0,0,0,0,0,0,0,0,0,0,1,1,1,1,1,1,1,1,1,1,1,1,1,1,1,1,1,1,1,1,1,1,1,
          1,1,1,1,1,1,1,1,1,1,1,1,1,1,1,1,0,0,0,0,0,0,0,0,0,0,0,0,0,0,0,0,0,0,0,0,0,0,0,0,0,0,0,0,
          0,0,0,0,0,0,0,0,0,0,0,1,1,1,1,1,1,1,1,1,1,1,1,1,1,1,1,1,1,1,1,1,1,1,1,1,1,1,1,1,1,1,1,1,
          1,1,1,1,1,1,2,2,2,2,2,2,2,2,2,2,2,2,2,2,2,2,2,2,2,2,2,2,2,2,2,2,2,2,2,2>>,
        <<0,0,0,0,0,0,0,0,0,0,0,0,0,0,0,0,0,0,0,0,0,0,0,0,0,0,0,0,0,0,0,0,0,0,0,0,0,0,0,0,0,0,0,0,
          0,0,0,0,0,0,0,0,0,0,0,0,0,0,0,0,1,1,1,1,1,1,1,1,1,1,1,1,1,1,1,1,1,1,1,1,1,1,1,1,1,1,1,1,
          1,1,1,1,1,1,1,1,1,1,1,1,1,1,1,1,1,1,1,1,1,1,1,1,1,1,1,1,1,1,1,1,1,1,1,1,1,1,1,1,1,1,1,1,
          1,1,1,1,1,1,1,1,1,1,1,1,1,1,1,1,1,1,1,1,1,1,1,1,1,1,1,1,1,1,1,1,1,1,1,1>>>>]
    >>

\* Addition and multiplication of GF(4) on 0, 1, x, x^2 = x + 1.
GF4Add == << <<0, 1, 2, 3>>, <<1, 0, 3, 2>>, <<2, 3, 0, 1>>, <<3, 2, 1, 0>> >>

GF4Mul == << <<0, 0, 0, 0>>, <<0, 1, 2, 3>>, <<0, 2, 3, 1>>, <<0, 3, 1, 2>> >>

\* FieldAdd without the reduction modulo q.
FieldAdd_NoReduction(q, a, b) == IF q = 4 THEN GF4Add[a + 1][b + 1] ELSE a + b

\* Sum and product in GF(q), q prime or 4.
FieldAdd(q, a, b) == IF q = 4 THEN GF4Add[a + 1][b + 1] ELSE (a + b) % q

FieldMul(q, a, b) == IF q = 4 THEN GF4Mul[a + 1][b + 1] ELSE (a * b) % q

\* nrows counting the columns.
nrows_Columns(M) == Len(M[1])

\* Lines 26-27: M.ncols(), M.nrows()
nrows(M) == Len(M)

ncols(M) == Len(M[1])

\* Coordinate j of the codeword m * M: the sum of m[i] * M[i][j] over the
\* rows 1..i.
RECURSIVE Coordinate(_, _, _, _, _)
Coordinate(q, m, M, j, i) ==
    IF i = 0 THEN 0
    ELSE FieldAdd(q, Coordinate(q, m, M, j, i - 1), FieldMul(q, m[i], M[i][j]))

\* Hamming weight of the codeword m * M.
Weight(q, m, M) ==
    Cardinality({j \in 1..ncols(M) : Coordinate(q, m, M, j, nrows(M)) # 0})

\* The message after m when the messages are counted in base q.
RECURSIVE NextMessage(_, _, _)
NextMessage(q, m, i) ==
    IF i > Len(m) THEN m
    ELSE IF m[i] < q - 1 THEN [m EXCEPT ![i] = m[i] + 1]
    ELSE NextMessage(q, [m EXCEPT ![i] = 0], i + 1)

LastMessage(q, m) == \A i \in DOMAIN m : m[i] = q - 1

\* Lines 24-29: for code in data, the weight distribution of LinearCode(M),
\* one codeword at a time; seen collects the weights w with w # 0.
InitDatabase ==
    /\ NoObject
    /\ NoFrameLoop
    /\ NoLookup
    /\ NoCallers
    /\ frame_list = <<>>
    /\ fidx = 0
    /\ min_frame_set = {}
    /\ redund_frame_set = {}
    /\ broke = FALSE
    /\ fpc = "idle"
    /\ code \in DOMAIN data
    /\ msg = [i \in 1..nrows(data[code].M) |-> 0]
    /\ seen = {}
    /\ dpc = "words"

NextCodeword ==
    /\ dpc = "words"
    /\ ~LastMessage(data[code].K, msg)
    /\ msg' = NextMessage(data[code].K, msg, 1)
    /\ seen' = seen \cup ({Weight(data[code].K, msg', data[code].M)} \ {0})
    /\ UNCHANGED <<code, dpc>>
    /\ UNCHANGED <<classVars, frameVars, loopVars, predefVars, callerVars>>

AllCodewords ==
    /\ dpc = "words"
    /\ LastMessage(data[code].K, msg)
    /\ dpc' = "done"
    /\ UNCHANGED <<code, msg, seen>>
    /\ UNCHANGED <<classVars, frameVars, loopVars, predefVars, callerVars>>

NextDatabase ==
    \/ NextCodeword
    \/ AllCodewords

SpecDatabase == InitDatabase /\ [][NextDatabase]_vars

\* C17: in every entry of the database n is the number of columns of M and
\* k is the number of rows of M.
C17_LengthAndDimension ==
    /\ data[code].n = ncols(data[code].M)
    /\ data[code].k = nrows(data[code].M)
    /\ \A i \in DOMAIN data[code].M : Len(data[code].M[i]) = data[code].n

C17_Witness ==
    /\ dpc = "words"
    /\ seen # {}
    /\ data[code].n = 198
    /\ data[code].k = 10
    /\ ncols(data[code].M) = 198
    /\ nrows(data[code].M) = 10

\* C18: every entry of the database is a two-weight code with the weights
\* w1 < w2: the non-zero weights of its codewords are w1 and w2, both met.
C18_TwoWeights ==
    /\ data[code].w1 < data[code].w2
    /\ seen \subseteq {data[code].w1, data[code].w2}
    /\ (dpc = "done") => seen = {data[code].w1, data[code].w2}
    /\ (msg # [i \in DOMAIN msg |-> 0]) =>
          Weight(data[code].K, msg, data[code].M) \in {data[code].w1, data[code].w2}

C18_Witness ==
    /\ dpc = "done"
    /\ data[code].K = 3
    /\ data[code].n = 15
    /\ data[code].k = 4
    /\ seen = {9, 12}

---------------------------------------------------------------------------
\* Properties of the class object (specification Spec), continued

\* C19: once constructed, no call of get_form, function, class_type,
\* _init_derived or _del_derived changes the function, the class type, the
\* bundle (field, rank, base dimension) or the coefficient list computed at
\* construction; function() and class_type() return the arguments of the
\* constructor.
C19_ImmutableAfterConstruction ==
    [][constructed =>
          /\ constructed'
          /\ init_call' = init_call
          /\ _func' = _func /\ _func' = init_call.func
          /\ _class_type' = _class_type /\ _class_type' = init_call.class_type
          /\ _field_type' = _field_type /\ _field_type' = init_call.field
          /\ _rank' = _rank /\ _rank' = init_call.rank
          /\ _dim' = _dim
          /\ _coeff_list' = _coeff_list
          /\ _coeff_list' = _get_coeff_list(init_call.func, init_call.field,
                                            init_call.class_type, _dim)
          /\ (last'.op = "function") => last'.val = init_call.func
          /\ (last'.op = "class_type") => last'.val = init_call.class_type
      ]_vars

C19_Witness ==
    /\ constructed
    /\ last.op = "function"
    /\ last.val = <<1, 0, 1>>
    /\ _class_type = "multiplicative"
    /\ _field_type = "complex"
    /\ Len(_coeff_list) = 3
    /\ DOMAIN _mixed_forms = Connections

---------------------------------------------------------------------------
\* Two callers of get_form on one class object.  get_form takes no lock
\* (lines 703-789), so the steps of two calls interleave: the look-up of
\* line 707, the computation of res (lines 715-785), the store of line 787
\* and the return of line 789.

\* A constructed class object whose get_form raises nothing in the
\* computation, and two callers that have not called yet.
InitCallers ==
    /\ \E field \in FieldTypes, class_type \in ClassTypeArgs, rank \in 0..MaxRank,
          dim \in 1..MaxDim, func \in Funcs :
          /\ ArgsAccepted(field, class_type, rank)
          /\ deg_dist(class_type, field, rank) # 0
          /\ constructed = TRUE
          /\ _field_type = field
          /\ _class_type = class_type
          /\ _rank = rank
          /\ _dim = dim
          /\ _func = func
          /\ _coeff_list = _get_coeff_list(func, field, class_type, dim)
          /\ init_call = [field |-> field, class_type |-> class_type,
                          rank |-> rank, func |-> func, err |-> "none"]
    /\ _mixed_forms = EmptyDict
    /\ next_id = 1
    /\ last = NoCall
    /\ frame_list = <<>>
    /\ fidx = 0
    /\ min_frame_set = {}
    /\ redund_frame_set = {}
    /\ broke = FALSE
    /\ fpc = "idle"
    /\ NoFrameLoop
    /\ NoLookup
    /\ NoDatabase
    /\ NoCallers

\* Caller t enters get_form(con, cmatrices).
CallerEnters(t, con, cmatrices) ==
    /\ tpc[t] = "idle"
    /\ tpc' = [tpc EXCEPT ![t] = "check"]
    /\ tcall' = [tcall EXCEPT ![t] = [con |-> con, cmatrices |-> cmatrices]]
    /\ overlapped' = (overlapped \/ \E u \in Callers \ {t} : tpc[u] \notin {"idle", "done"})
    /\ UNCHANGED <<tres, tret, computed, written>>
    /\ UNCHANGED <<classVars, frameVars, loopVars, predefVars, dbVars>>

\* Lines 703-714: the type check, the look-up and the Pfaffian check.
CallerChecks(t) ==
    /\ tpc[t] = "check"
    /\ LET how == Entry(tcall[t].con, tcall[t].cmatrices, _mixed_forms, _class_type)
       IN  CASE how \in {"TypeError", "NotImplementedError"} ->
                  /\ tpc' = [tpc EXCEPT ![t] = "done"]
                  /\ tret' = [tret EXCEPT ![t] = [id |-> 0, err |-> how]]
             [] how = "hit" ->
                  /\ tpc' = [tpc EXCEPT ![t] = "return"]
                  /\ UNCHANGED tret
             [] how = "compute" ->
                  /\ tpc' = [tpc EXCEPT ![t] = "compute"]
                  /\ UNCHANGED tret
    /\ UNCHANGED <<tcall, tres, computed, written, overlapped>>
    /\ UNCHANGED <<classVars, frameVars, loopVars, predefVars, dbVars>>

\* Lines 715-785: res is created and filled.
CallerComputes(t) ==
    /\ tpc[t] = "compute"
    /\ next_id <= MaxForms
    /\ \E frames \in FramesToProcess(tcall[t].con, tcall[t].cmatrices) :
          tres' = [tres EXCEPT ![t] =
                      [id |-> next_id,
                       is_zero |-> ZeroMarks(_class_type, _field_type, _rank, _dim),
                       frames |-> frames]]
    /\ next_id' = next_id + 1
    /\ computed' = [computed EXCEPT ![tcall[t].con] = @ + 1]
    /\ tpc' = [tpc EXCEPT ![t] = "store"]
    /\ UNCHANGED <<tcall, tret, written, overlapped>>
    /\ UNCHANGED <<constructed, init_call, _field_type, _class_type, _rank, _dim,
                   _func, _coeff_list, _mixed_forms, last>>
    /\ UNCHANGED <<frameVars, loopVars, predefVars, dbVars>>

\* Line 787: self._mixed_forms[con] = res
CallerStores(t) ==
    /\ tpc[t] = "store"
    /\ _mixed_forms' = CacheStore(_mixed_forms, tcall[t].con, tres[t], "none")
    /\ written' = [written EXCEPT ![tcall[t].con] = @ + 1]
    /\ tpc' = [tpc EXCEPT ![t] = "return"]
    /\ UNCHANGED <<tcall, tres, tret, computed, overlapped>>
    /\ UNCHANGED <<constructed, init_call, _field_type, _class_type, _rank, _dim,
                   _func, _coeff_list, next_id, last>>
    /\ UNCHANGED <<frameVars, loopVars, predefVars, dbVars>>

\* Line 789: return self._mixed_forms[con]
CallerReturns(t) ==
    /\ tpc[t] = "return"
    /\ tret' = [tret EXCEPT ![t] = [id |-> _mixed_forms[tcall[t].con].id, err |-> "none"]]
    /\ tpc' = [tpc EXCEPT ![t] = "done"]
    /\ UNCHANGED <<tcall, tres, computed, written, overlapped>>
    /\ UNCHANGED <<classVars, frameVars, loopVars, predefVars, dbVars>>

NextCallers ==
    \/ \E t \in Callers, con \in Connections \cup NotConnections,
          cmatrices \in CMatricesArgs : CallerEnters(t, con, cmatrices)
    \/ \E t \in Callers : CallerChecks(t)
    \/ \E t \in Callers : CallerComputes(t)
    \/ \E t \in Callers : CallerStores(t)
    \/ \E t \in Callers : CallerReturns(t)

SpecCallers == InitCallers /\ [][NextCallers]_vars

\* Both callers have returned a form for the connection con.
BothReturned(con) ==
    \A t \in Callers :
        /\ tpc[t] = "done"
        /\ tcall[t].con = con
        /\ tret[t].err = "none"

AtMostOnce(con) ==
    /\ computed[con] <= 1
    /\ written[con] <= 1
    /\ BothReturned(con) => \A t, u \in Callers : tret[t].id = tret[u].id

\* C20 as stated: also when two get_form calls for the same connection
\* interleave, the form is computed only once, the cache entry is written
\* only once and both callers receive the identical object.
C20_AtMostOnceInterleaved ==
    \A con \in Connections : AtMostOnce(con)

\* C20 amended: when the get_form calls do not interleave (each call returns
\* before the next one enters), the form of a connection is computed only
\* once, its cache entry is written only once and both callers receive the
\* identical object.
C20_AtMostOnceSequential ==
    ~overlapped => \A con \in Connections : AtMostOnce(con)

C20_Witness ==
    /\ ~overlapped
    /\ BothReturned("nab1")
    /\ computed["nab1"] = 1
    /\ written["nab1"] = 1
    /\ tret[1].id = tret[2].id
    /\ tret[1].id = _mixed_forms["nab1"].id

---------------------------------------------------------------------------
\* Properties of the coefficient list

\* C21: the coefficient list computed at construction is indexed from the
\* coefficient of index 0 upward and holds no coefficient of index above
\* floor(dim / 2), so the loop body of get_form forms no matrix power above
\* floor(dim / 2).
C21_TruncationOrder ==
    /\ Len(_coeff_list) <= _dim \div 2 + 1
    /\ (_field_type = "complex") =>
          \A i \in DOMAIN _coeff_list :
              _coeff_list[i] = [num |-> TaylorOf(_func, i - 1), den |-> 1]
    /\ Len(power_list) <= _dim \div 2 + 1
    /\ mults <= _dim \div 2
    /\ (ppc \in {"reduce", "done"}) => Len(power_list) = Len(_coeff_list)

C21_Witness ==
    /\ ppc = "done"
    /\ _field_type = "complex"
    /\ _func = <<1, 0, 1>>
    /\ _dim \in {2, 3}
    /\ _rank = 2
    /\ _coeff_list = <<[num |-> 1, den |-> 1]>>
    /\ mults = 0

\* Defining functions as Taylor coefficients a[0..n-1] at 0 with a[0] = 1,
\* the other coefficients 0 or 1.
TaylorFuncs(n) == {f \in [1..n -> {0, 1}] : f[1] = 1}

\* Construction alone, over the defining functions with coefficients up to
\* the index MaxDim and over the dimensions up to MaxDim + 2, where the
\* truncation order reaches the odd index 3.
NextConstruct ==
    \E field \in FieldTypes, class_type \in ClassTypeArgs, rank \in 0..MaxRank,
       dim \in 1..(MaxDim + 2), func \in TaylorFuncs(MaxDim + 1) :
       Construct(field, class_type, rank, dim, func)

SpecConstruct == Init /\ [][NextConstruct]_vars

\* Entry k (counted from 0) of the coefficient list; the dense list ends at
\* its last non-zero entry, the entries after it are zero.
CoeffAt(k) ==
    IF k + 1 <= Len(_coeff_list) THEN _coeff_list[k + 1] ELSE [num |-> 0, den |-> 1]

\* The odd projection (f(x) - f(-x)) / 2 of the function cut at order n:
\* its coefficients of index 0..n.
OddProjection(func, n) ==
    [k \in 0..n |-> IF k % 2 = 1 THEN [num |-> TaylorOf(func, k), den |-> 1]
                                  ELSE [num |-> 0, den |-> 1]]

\* C22 as stated: for a Pfaffian class the coefficient list is the Taylor
\* expansion up to the order dim, for additive and multiplicative classes up
\* to the order floor(dim / 2).
C22_FullDimensionForPfaffian ==
    constructed =>
        /\ (_class_type = "Pfaffian") =>
              \A k \in 0.._dim : CoeffAt(k) = OddProjection(_func, _dim)[k]
        /\ (_class_type # "Pfaffian") => Len(_coeff_list) <= _dim \div 2 + 1

\* C22 amended: for every class type, Pfaffian included, the coefficient
\* list is the Taylor expansion up to the order floor(dim / 2); for a
\* Pfaffian class the coefficients of index above floor(dim / 2) are left
\* out even when they are not zero in the function.
C22_HalfDimensionForAll ==
    constructed =>
        /\ Len(_coeff_list) <= _dim \div 2 + 1
        /\ (_class_type = "Pfaffian") =>
              \A k \in 0.._dim :
                  CoeffAt(k) = IF k <= _dim \div 2
                               THEN OddProjection(_func, _dim)[k]
                               ELSE [num |-> 0, den |-> 1]

C22_Witness ==
    /\ constructed
    /\ _class_type = "Pfaffian"
    /\ _dim = 4
    /\ _rank = 2
    /\ TaylorOf(_func, 1) = 1
    /\ TaylorOf(_func, 3) = 1
    /\ _coeff_list = <<[num |-> 0, den |-> 1], [num |-> 1, den |-> 1]>>

\* C23: for a Pfaffian class every coefficient of even index, the index 0
\* included, is zero, and every coefficient of odd index k up to the
\* truncation order floor(dim / 2) is the coefficient a[k] of the function.
C23_OddProjection ==
    (constructed /\ _class_type = "Pfaffian") =>
        \A k \in 0..(_dim \div 2) :
            /\ (k % 2 = 0) => CoeffAt(k).num = 0
            /\ (k % 2 = 1) => CoeffAt(k) = [num |-> TaylorOf(_func, k), den |-> 1]

C23_Witness ==
    /\ constructed
    /\ _class_type = "Pfaffian"
    /\ _dim = 6
    /\ TaylorOf(_func, 0) = 1
    /\ TaylorOf(_func, 1) = 0
    /\ TaylorOf(_func, 2) = 1
    /\ TaylorOf(_func, 3) = 1
    /\ _coeff_list = <<[num |-> 0, den |-> 1], [num |-> 0, den |-> 1],
                       [num |-> 0, den |-> 1], [num |-> 1, den |-> 1]>>

---------------------------------------------------------------------------
\* Properties of the frame selection (specification SpecFrames)

\* C24: at the end of every iteration of the outer loop and on return, no
\* two distinct selected frames have the domain of one inside the domain of
\* the other, equal domains included.
C24_NoComparablePair ==
    \A f \in min_frame_set : \A g \in min_frame_set \ {f} :
        ~is_subset(f.dom, g.dom)

C24_Witness ==
    /\ fpc = "done"
    /\ Len(frame_list) = 3
    /\ Cardinality(min_frame_set) = 2
    /\ redund_frame_set = {frame_list[1]}
    /\ ~broke

\* C28: an iteration of the outer loop that discards its candidate (the
\* inner loop breaks) has collected no redundant frame and removes no
\* selected frame.
C28_BreakRemovesNothing ==
    [][(fidx' = fidx + 1 /\ broke')
        => (redund_frame_set' = {} /\ min_frame_set' = min_frame_set)]_vars

C28_Witness ==
    /\ fidx = 3
    /\ broke
    /\ Cardinality(min_frame_set) = 2
    /\ frame_list[3] \notin min_frame_set
    /\ \E o \in min_frame_set : StrictlyInside(frame_list[3].dom, o.dom)

\* The inclusion-maximal domains of a set of frames.
MaximalDomains(frames) ==
    {f.dom : f \in {g \in frames : \A h \in frames : ~StrictlyInside(g.dom, h.dom)}}

\* The domains of a set of frames.
DomainsOf(frames) == {f.dom : f \in frames}

\* The permutations of the positions of the frame list.
Orders(n) == {p \in [1..n -> 1..n] : \A i, j \in 1..n : p[i] = p[j] => i = j}

\* C29: whatever the order of the frames in the list, the domains of the
\* frames returned are the inclusion-maximal domains of the input, with
\* exactly one frame for each of them.
C29_OrderIndependent ==
    (fpc = "done") =>
        /\ DomainsOf(min_frame_set) = MaximalDomains(InputFrames)
        /\ Cardinality(min_frame_set) = Cardinality(MaximalDomains(InputFrames))
        /\ \A p \in Orders(Len(frame_list)) :
              \A out \in _get_min_frames([i \in 1..Len(frame_list) |-> frame_list[p[i]]]) :
                  /\ DomainsOf(out) = DomainsOf(min_frame_set)
                  /\ Cardinality(out) = Cardinality(min_frame_set)

C29_Witness ==
    /\ fpc = "done"
    /\ Len(frame_list) = 3
    /\ frame_list[1].dom = frame_list[3].dom
    /\ StrictlyInside(frame_list[2].dom, frame_list[1].dom)
    /\ Cardinality(min_frame_set) = 1

---------------------------------------------------------------------------
\* Properties of the cache and of the frames of get_form (specification Spec)

\* C25: a get_form call that finds no cache entry and returns processes,
\* without cmatrices, a set of frames the frame selector returns for the
\* frames of the connection, with the curvature forms of each of them
\* queried; with cmatrices it processes exactly the keys of the dictionary,
\* the frame selector is not applied and no curvature form is queried.
C25_FramesProcessed ==
    [][(/\ last'.op = "get_form"
        /\ last'.err = "none"
        /\ last'.con \in Connections \ DOMAIN _mixed_forms)
       => \A cmatrices \in CMatricesArgs :
             get_form(last'.con, cmatrices, "none")
             => /\ ~last'.hit
                /\ ~cmatrices.given =>
                      /\ last'.processed \in _get_min_frames(ConFrames(last'.con))
                      /\ (_rank > 0) => last'.curv = last'.processed
                /\ cmatrices.given =>
                      /\ last'.processed = cmatrices.keys
                      /\ last'.curv = {}
                /\ _mixed_forms'[last'.con].frames = last'.processed]_vars

C25_Witness ==
    /\ last.op = "get_form"
    /\ last.con = "nab1"
    /\ last.given
    /\ ~last.hit
    /\ last.err = "none"
    /\ last.processed = {eU, gM}
    /\ last.curv = {}
    /\ {eU, gM} \notin _get_min_frames(ConFrames("nab1"))

\* C26: a get_form call for a connection that is in the cache ignores
\* cmatrices: whatever cmatrices is, a different dictionary or none, and for
\* a Pfaffian class without cmatrices too, it raises nothing and returns the
\* object the cache holds, which keeps the frames of the call that stored
\* it.
C26_HitIgnoresMatrices ==
    [][(last'.op = "get_form" /\ last'.con \in DOMAIN _mixed_forms)
       => \A cmatrices \in {c \in CMatricesArgs : c.given = last'.given},
             fail \in {"none", "curvature_form", "pipeline"} :
             get_form(last'.con, cmatrices, fail)
             => /\ last'.hit
                /\ last'.err = "none"
                /\ last'.ret = _mixed_forms[last'.con].id
                /\ last'.con \in DOMAIN _mixed_forms'
                /\ _mixed_forms'[last'.con].frames = _mixed_forms[last'.con].frames
                /\ _mixed_forms'[last'.con].id = _mixed_forms[last'.con].id]_vars

C26_Witness ==
    /\ last.op = "get_form"
    /\ last.hit
    /\ ~last.given
    /\ last.err = "none"
    /\ _class_type = "Pfaffian"
    /\ last.con \in DOMAIN _mixed_forms
    /\ _mixed_forms[last.con].frames = {eU, gM}
    /\ last.ret = _mixed_forms[last.con].id

\* C27: the cache is empty after construction and after _init_derived and
\* _del_derived; a get_form call adds the connection of the call to the keys
\* of the cache exactly when it returns, and no other step changes the keys;
\* so the keys are the connections get_form has returned for since the last
\* reset.  A get_form that returns for a connection that is not a key
\* computes and stores an object that did not exist before.
C27_KeysAreReturnedConnections ==
    [][/\ (~constructed /\ constructed') => _mixed_forms' = EmptyDict
       /\ (last'.op \in {"_init_derived", "_del_derived"}) => _mixed_forms' = EmptyDict
       /\ (last'.op = "get_form") =>
             DOMAIN _mixed_forms' =
                DOMAIN _mixed_forms \cup (IF last'.err = "none" THEN {last'.con} ELSE {})
       /\ (constructed /\ last'.op \notin {"get_form", "_init_derived", "_del_derived"}) =>
             DOMAIN _mixed_forms' = DOMAIN _mixed_forms
       /\ (/\ last'.op = "get_form"
           /\ last'.err = "none"
           /\ last'.con \notin DOMAIN _mixed_forms) =>
             /\ ~last'.hit
             /\ last'.ret = next_id
             /\ _mixed_forms'[last'.con].id = next_id
             /\ next_id' = next_id + 1
             /\ \A c \in DOMAIN _mixed_forms : _mixed_forms[c].id < next_id]_vars

C27_Witness ==
    /\ last.op = "get_form"
    /\ ~last.hit
    /\ last.err = "none"
    /\ last.ret = 3
    /\ DOMAIN _mixed_forms = {last.con}
    /\ _mixed_forms[last.con].id = 3
    /\ _class_type = "additive"
    /\ _rank > 0

\* C30: for every class object construction accepts, the stride of the
\* degree bookkeeping is a positive integer: the field is real or complex,
\* so the stride 1 of the last branch is never taken, the stride of a
\* Pfaffian class (the rank) is not 0, and no get_form call ends in a
\* division by zero.
C30_StridePositive ==
    /\ constructed =>
          /\ _field_type \in {"real", "complex"}
          /\ deg_dist(_class_type, _field_type, _rank) > 0
    /\ last.err # "ZeroDivisionError"

====
